---- MODULE Spec2Model ----
(***************************************************************************)
(* Model of the resume parser (src/resume_final.py, src/backend_api.py).   *)
(*                                                                         *)
(* Each component of the extraction pipeline is modelled by one record     *)
(* variable and one specification:                                         *)
(*   norm  - _normalize_text_block          (NormSpec)                     *)
(*   dehy  - _dehyphenate_lines             (DehySpec)                     *)
(*   expe  - calculate_total_experience     (ExpeSpec)                     *)
(*   proc  - process_resume                 (ProcSpec)                     *)
(*   segm  - extract_sections_with_pymupdf  (SegmSpec)                     *)
(*   skil  - extract_skills                 (SkilSpec)                     *)
(*   nam   - extract_name                   (NameSpec)                     *)
(*   phon  - extract_phone                  (PhonSpec)                     *)
(*   extr  - get_combined_texts             (ExtrSpec)                     *)
(*   http  - backend_api.py endpoints       (HttpSpec)                     *)
(*   refi  - extract_sections_.._refined    (RefiSpec)                     *)
(*   veri  - verify_and_select_name         (VeriSpec)                     *)
(*   dete  - two runs of calculate_total_experience (DeteSpec)             *)
(* Text is a sequence of symbols; a symbol stands for one character class  *)
(* the code's regular expressions distinguish.                             *)
(***************************************************************************)
EXTENDS Integers, Sequences, FiniteSets, TLC

VARIABLES norm, dehy, expe, proc, segm, skil, nam, phon, extr, http, refi, veri, dete

vars == <<norm, dehy, expe, proc, segm, skil, nam, phon, extr, http, refi, veri, dete>>

\* ------------------------------------------------------------------------
\* Generic sequence helpers
\* ------------------------------------------------------------------------
Take(s, n) == SubSeq(s, 1, n)

Drop(s, n) == SubSeq(s, n + 1, Len(s))

Last(s) == s[Len(s)]

Front(s) == SubSeq(s, 1, Len(s) - 1)

RECURSIVE SeqsUpTo(_, _)
\* all sequences over S of length 0..n
SeqsUpTo(S, n) ==
    IF n = 0 THEN {<<>>}
    ELSE LET shorter == SeqsUpTo(S, n - 1)
         IN shorter \cup {Append(q, x) : q \in {r \in shorter : Len(r) = n - 1}, x \in S}

RECURSIVE Flatten(_)
Flatten(ss) == IF ss = <<>> THEN <<>> ELSE Head(ss) \o Flatten(Tail(ss))

\* ------------------------------------------------------------------------
\* Text symbols.  "x" is an ordinary character, "Page", "d" (a digit) and
\* "of" (the word "of" or "/") are the pieces of a "Page N of M" footer,
\* the others are whitespace characters.
\* ------------------------------------------------------------------------
SP == "SP"

NL == "NL"

TAB == "TAB"

NBSP == "NBSP"

Whitespace == {SP, NL, TAB, NBSP}

IsWs(c) == c \in Whitespace

RECURSIVE WsRunLen(_)
\* length of the maximal run of whitespace s starts with
WsRunLen(s) == IF s = <<>> \/ ~IsWs(Head(s)) THEN 0 ELSE 1 + WsRunLen(Tail(s))

RECURSIVE NlRunLen(_)
NlRunLen(s) == IF s = <<>> \/ Head(s) # NL THEN 0 ELSE 1 + NlRunLen(Tail(s))

RECURSIVE DigitRunLen(_)
DigitRunLen(s) == IF s = <<>> \/ Head(s) # "d" THEN 0 ELSE 1 + DigitRunLen(Tail(s))

\* index of the last newline of s, 0 if it has none
LastNl(s) ==
    LET idx == {i \in 1..Len(s) : s[i] = NL}
    IN IF idx = {} THEN 0 ELSE CHOOSE i \in idx : \A j \in idx : j <= i

\* ------------------------------------------------------------------------
\* _normalize_text_block, one operator per statement
\* ------------------------------------------------------------------------
\* txt.replace(" ", " ")
ReplaceNbsp(s) == [i \in 1..Len(s) |-> IF s[i] = NBSP THEN SP ELSE s[i]]

RECURSIVE SubWsBeforeNl(_)
\* re.sub(r"\s+\n", "\n", txt): in a whitespace run, everything up to its
\* last newline (when that is not the run's first character) becomes "\n"
SubWsBeforeNl(s) ==
    IF s = <<>> THEN <<>>
    ELSE IF IsWs(Head(s))
         THEN LET n == WsRunLen(s)
                  run == Take(s, n)
                  j == LastNl(run)
              IN IF j >= 2
                 THEN <<NL>> \o SubSeq(run, j + 1, n) \o SubWsBeforeNl(Drop(s, n))
                 ELSE run \o SubWsBeforeNl(Drop(s, n))
         ELSE <<Head(s)>> \o SubWsBeforeNl(Tail(s))

RECURSIVE SubBlankLines(_)
\* re.sub(r"\n{3,}", "\n\n", txt)
SubBlankLines(s) ==
    IF s = <<>> THEN <<>>
    ELSE IF Head(s) = NL
         THEN LET n == NlRunLen(s)
              IN (IF n >= 3 THEN <<NL, NL>> ELSE Take(s, n)) \o SubBlankLines(Drop(s, n))
         ELSE <<Head(s)>> \o SubBlankLines(Tail(s))

\* re.sub(r"[\t\r]", " ", txt)
SubTabs(s) == [i \in 1..Len(s) |-> IF s[i] = TAB THEN SP ELSE s[i]]

RECURSIVE SubWsRuns(_)
\* re.sub(r"\s{2,}", " ", txt)
SubWsRuns(s) ==
    IF s = <<>> THEN <<>>
    ELSE IF IsWs(Head(s))
         THEN LET n == WsRunLen(s)
              IN (IF n >= 2 THEN <<SP>> ELSE Take(s, n)) \o SubWsRuns(Drop(s, n))
         ELSE <<Head(s)>> \o SubWsRuns(Tail(s))

\* Length of the match of  ^\s*Page\s+\d+\s+(of|/)\s*\d+\s*$  that starts at
\* the head of t (0: no match).  The character classes are disjoint, so only
\* the trailing \s*$ backtracks: it ends at the end of the text or before
\* the last newline of the whitespace run.
FooterMatchLen(t) ==
    LET a == WsRunLen(t)
        t1 == Drop(t, a)
        t2 == IF t1 # <<>> /\ Head(t1) = "Page" THEN Tail(t1) ELSE <<>>
        b == WsRunLen(t2)
        t3 == Drop(t2, b)
        c == DigitRunLen(t3)
        t4 == Drop(t3, c)
        d == WsRunLen(t4)
        t5 == Drop(t4, d)
        t6 == IF t5 # <<>> /\ Head(t5) = "of" THEN Tail(t5) ELSE <<>>
        e == WsRunLen(t6)
        t7 == Drop(t6, e)
        f == DigitRunLen(t7)
        t8 == Drop(t7, f)
        g == WsRunLen(t8)
        run == Take(t8, g)
        atEnd == Drop(t8, g) = <<>>
        tail == IF atEnd THEN g ELSE LastNl(run) - 1
    IN IF b >= 1 /\ c >= 1 /\ d >= 1 /\ t5 # <<>> /\ Head(t5) = "of" /\ f >= 1
          /\ (atEnd \/ LastNl(run) >= 1)
       THEN a + 1 + b + c + d + 1 + e + f + tail
       ELSE 0

RECURSIVE SubFooterFrom(_, _)
\* re.sub(footer, "", txt, flags=IGNORECASE | MULTILINE), scanning from p
SubFooterFrom(s, p) ==
    IF p > Len(s) THEN <<>>
    ELSE LET lineStart == p = 1 \/ s[p - 1] = NL
             m == IF lineStart THEN FooterMatchLen(Drop(s, p - 1)) ELSE 0
         IN IF m > 0 THEN SubFooterFrom(s, p + m)
            ELSE <<s[p]>> \o SubFooterFrom(s, p + 1)

SubFooter(s) == SubFooterFrom(s, 1)

RECURSIVE LStrip(_)
LStrip(s) == IF s # <<>> /\ IsWs(Head(s)) THEN LStrip(Tail(s)) ELSE s

RECURSIVE RStrip(_)
RStrip(s) == IF s # <<>> /\ IsWs(Last(s)) THEN RStrip(Front(s)) ELSE s

Strip(s) == LStrip(RStrip(s))

_normalize_text_block(txt) ==
    IF txt = <<>> THEN <<>>
    ELSE Strip(SubFooter(SubWsRuns(SubTabs(SubBlankLines(SubWsBeforeNl(ReplaceNbsp(txt)))))))

\* ------------------------------------------------------------------------
\* Inputs of the normalizer: texts built from at most MaxPieces pieces
\* ------------------------------------------------------------------------
MaxPieces == 5

Footer == <<"Page", SP, "d", SP, "of", SP, "d">>

TextPieces == {<<"x">>, <<SP>>, <<NL>>, <<TAB>>, <<NBSP>>, Footer}

NormInputs == {Flatten(ps) : ps \in SeqsUpTo(TextPieces, MaxPieces)}

\* ------------------------------------------------------------------------
\* _dehyphenate_lines.  A line is a sequence of the symbols "a" (a lowercase
\* letter), "A" (an uppercase letter or any other printable character),
\* "-" and SP.
\* ------------------------------------------------------------------------
\* ln[:1].islower()
StartsLower(ln) == ln # <<>> /\ Head(ln) = "a"

\* s.endswith('-')
EndsWithHyphen(s) == s # <<>> /\ Last(s) = "-"

\* a variant that joins after a hyphen whatever the next line starts with
DehyphenateLineAnyCase(out, ln) ==
    IF out # <<>> /\ EndsWithHyphen(RStrip(Last(out))) /\ ln # <<>>
    THEN [out EXCEPT ![Len(out)] = Front(RStrip(Last(out))) \o LStrip(ln)]
    ELSE Append(out, ln)

\* the loop body over one line `ln`, `out` being the lines kept so far
DehyphenateLine(out, ln) ==
    IF out # <<>> /\ EndsWithHyphen(RStrip(Last(out))) /\ StartsLower(ln)
    THEN [out EXCEPT ![Len(out)] = Front(RStrip(Last(out))) \o LStrip(ln)]
    ELSE Append(out, ln)

RECURSIVE DehyphenateFrom(_, _)
DehyphenateFrom(out, lines) ==
    IF lines = <<>> THEN out
    ELSE DehyphenateFrom(DehyphenateLine(out, Head(lines)), Tail(lines))

_dehyphenate_lines(lines) == DehyphenateFrom(<<>>, lines)

\* Inputs: at most MaxLines lines drawn from representative lines
MaxLines == 3

DehyLines ==
    { <<>>, <<"a">>, <<"A">>, <<"-">>, <<"a", "-">>, <<"A", "-">>,
      <<"a", "-", SP>>, <<SP, "a">>, <<"a", SP>>, <<"a", "-", "a">> }

DehyInputs == SeqsUpTo(DehyLines, MaxLines)

\* ------------------------------------------------------------------------
\* calculate_total_experience.
\* An instant is [idx, late]: idx = 12 * year + (month - 1), and late = 1
\* when the instant lies after the first instant of its month.  strptime
\* yields the first instant of a month (late = 0); datetime.now() does not.
\* A date string is a token: month and year ("Jan 2019", "01/2019"), a bare
\* year ("2019"), "Present"/"Now", or text the pattern matches and no
\* strptime format parses ("13/2020").
\* ------------------------------------------------------------------------
\* parse_date's NoDate
NoDate == [idx |-> -1, late |-> 0]

MonthYear(m, y) == [kind |-> "my", y |-> y, m |-> m]

Year(y) == [kind |-> "y", y |-> y, m |-> 1]

Present == [kind |-> "present", y |-> 0, m |-> 0]

Unparsable == [kind |-> "bad", y |-> 0, m |-> 0]

\* parse_date: "%b %Y", "%B %Y", "%m/%Y", "%m-%Y", "%Y" in turn, else NoDate
parse_date(tok) ==
    IF tok.kind \in {"my", "y"}
    THEN [idx |-> 12 * tok.y + (tok.m - 1), late |-> 0]
    ELSE NoDate

YearOf(t) == t.idx \div 12

\* datetime comparison a < b, a <= b
Before(a, b) == a.idx < b.idx \/ (a.idx = b.idx /\ a.late < b.late)

AtOrBefore(a, b) == ~Before(b, a)

\* relativedelta(e, s).years * 12 + relativedelta(e, s).months: the month
\* difference, moved one month towards zero while s + months overshoots e
RelMonths(e, s) ==
    LET m0 == e.idx - s.idx
    IN IF Before(e, s)
       THEN (IF e.late > s.late THEN m0 + 1 ELSE m0)
       ELSE (IF e.late < s.late THEN m0 - 1 ELSE m0)

\* end_dt = now if re.search(r'present|now', end_str) else parse_date(end_str)
EndOf(tok, now) == IF tok.kind = "present" THEN now ELSE parse_date(tok)

\* a variant without the start-year floor
KeepsIntervalAnyStart(start_dt, end_dt) ==
    /\ start_dt # NoDate
    /\ end_dt # NoDate
    /\ AtOrBefore(start_dt, end_dt)
    /\ ~(YearOf(end_dt) - YearOf(start_dt) > 20)

\* the condition under which the scan appends (start_dt, end_dt)
KeepsInterval(start_dt, end_dt) ==
    /\ start_dt # NoDate
    /\ end_dt # NoDate
    /\ AtOrBefore(start_dt, end_dt)
    /\ ~(YearOf(start_dt) < 1980)
    /\ ~(YearOf(end_dt) - YearOf(start_dt) > 20)

RECURSIVE InsertByStart(_, _)
\* stable insertion: after every interval whose start is not later
InsertByStart(sorted, iv) ==
    IF sorted = <<>> THEN <<iv>>
    ELSE IF AtOrBefore(Head(sorted).s, iv.s)
         THEN <<Head(sorted)>> \o InsertByStart(Tail(sorted), iv)
         ELSE <<iv>> \o sorted

RECURSIVE SortFrom(_, _)
SortFrom(sorted, ivs) ==
    IF ivs = <<>> THEN sorted
    ELSE SortFrom(InsertByStart(sorted, Head(ivs)), Tail(ivs))

\* intervals.sort(key=lambda x: x[0])
SortByStart(ivs) == SortFrom(<<>>, ivs)

RECURSIVE Sweep(_, _, _)
\* the sweep over intervals[1:], cur being (cur_s, cur_e)
Sweep(cur, rest, merged) ==
    IF rest = <<>> THEN Append(merged, cur)
    ELSE LET iv == Head(rest)
         IN IF AtOrBefore(iv.s, cur.e)
            THEN Sweep(IF Before(cur.e, iv.e) THEN [cur EXCEPT !.e = iv.e] ELSE cur,
                       Tail(rest), merged)
            ELSE Sweep(iv, Tail(rest), Append(merged, cur))

\* a variant that keeps every interval as a span of its own
MergeNothing(sorted) == sorted

RECURSIVE SweepStrict(_, _, _)
\* a variant of the sweep that merges only an interval starting strictly
\* before the current end
SweepStrict(cur, rest, merged) ==
    IF rest = <<>> THEN Append(merged, cur)
    ELSE LET iv == Head(rest)
         IN IF Before(iv.s, cur.e)
            THEN SweepStrict(IF Before(cur.e, iv.e) THEN [cur EXCEPT !.e = iv.e] ELSE cur,
                             Tail(rest), merged)
            ELSE SweepStrict(iv, Tail(rest), Append(merged, cur))

MergeIntervalsStrict(sorted) == SweepStrict(Head(sorted), Tail(sorted), <<>>)

\* the merge of the sorted, non-empty interval list
MergeIntervals(sorted) == Sweep(Head(sorted), Tail(sorted), <<>>)

RECURSIVE SumMonths(_)
\* total_months += delta.years * 12 + delta.months, over merged
SumMonths(merged) ==
    IF merged = <<>> THEN 0
    ELSE RelMonths(Head(merged).e, Head(merged).s) + SumMonths(Tail(merged))

Min(a, b) == IF a <= b THEN a ELSE b

\* a variant without the caps
CapNothing(total_months, max_months) == total_months

\* min(total_months, max_months), then min(total_months, 50 * 12)
CapTotal(total_months, max_months) == Min(Min(total_months, max_months), 50 * 12)

\* Inputs: the current instant, and the date ranges the pattern finds
Nows == { [idx |-> 12 * 2026 + 10, late |-> 1],
          [idx |-> 12 * 2031 + 1, late |-> 1] }

Range(a, b) == [start |-> a, end |-> b]

R_1975_1976 == Range(Year(1975), Year(1976))

R_1990_2015 == Range(Year(1990), Year(2015))

R_Jan2019_Jun2020 == Range(MonthYear(1, 2019), MonthYear(6, 2020))

R_Mar2020_Dec2021 == Range(MonthYear(3, 2020), MonthYear(12, 2021))

DateRanges ==
    { R_1975_1976, R_1990_2015, R_Jan2019_Jun2020, R_Mar2020_Dec2021,
      Range(MonthYear(1, 2010), MonthYear(12, 2012)),
      Range(MonthYear(6, 2020), MonthYear(12, 2021)),
      Range(MonthYear(1, 2019), Present),
      Range(MonthYear(1, 2027), MonthYear(12, 2031)),
      Range(MonthYear(1, 2024), MonthYear(12, 2031)),
      Range(MonthYear(12, 2021), MonthYear(1, 2019)),
      Range(Unparsable, Present),
      Range(Year(1980), Year(2000)) }

MaxMatches == 3

\* ------------------------------------------------------------------------
\* process_resume.  The document is abstracted to what decides the control
\* flow: whether each library can open it, and what the extractors find in
\* its text.  Texts and field values are opaque strings; "" is the empty
\* text, Null is Python's None.  The returned JSON text is represented by
\* the dict it serializes.
\* ------------------------------------------------------------------------
Null == "null"

NoError == "<absent>"

ZeroExperience == "0 years and 0 months"

\* the documents: can pdfplumber / PyMuPDF open and read the file
Documents == [plumber : BOOLEAN, fitz : BOOLEAN]

\* str(e) of the exceptions a step may raise; an exception raised without
\* arguments (MemoryError(), a bare assert) has the empty message
Messages == {"", "boom"}

OpenFailed == "cannot open file"

\* extract_text_with_pdfplumber / extract_text_with_pymupdf: any failure
\* yields ""
TextOf(opens, text) == IF opens THEN text ELSE ""

\* a or b, for strings
Or(a, b) == IF a # "" THEN a ELSE b

\* combined = ((txt1 or "") + "\n" + (txt2 or "")).strip()
Combined(txt1, txt2) ==
    IF txt1 = "" /\ txt2 = "" THEN ""
    ELSE IF txt2 = "" THEN txt1
    ELSE IF txt1 = "" THEN txt2
    ELSE "TA+TB"

\* what a field extractor may return on a text: nothing on the empty text
Found(text, value, miss) == IF text = "" THEN {miss} ELSE {miss, value}

\* the names the two texts may yield, and len() of each
NameA == "John Smith"

NameB == "John"

CharLen(name) ==
    CASE name = "John Smith" -> 10
      [] name = "John" -> 4
      [] name = "Unknown" -> 7
      [] name = "Jo Li" -> 5
      [] name = "Christopher" -> 11
      [] name = "Jane Roe" -> 8
      [] name = "Al Bo Cy" -> 8
      [] name = "Mary Ann Lee" -> 12
      [] name = "Maximilian" -> 10
      [] name = "Ann Lee" -> 7
      [] name = "Bob" -> 3

\* len(name.split()), the tokens of each
TokenCount(name) ==
    CASE name \in {"John", "Unknown", "Christopher", "Maximilian", "Bob"} -> 1
      [] name \in {"John Smith", "Jo Li", "Jane Roe", "Ann Lee"} -> 2
      [] name \in {"Al Bo Cy", "Mary Ann Lee"} -> 3

\* the arguments verify_and_select_name is called with
SelectableNames ==
    {"Unknown", "John Smith", "John", "Jo Li", "Christopher", "Jane Roe",
     "Al Bo Cy", "Mary Ann Lee", "Maximilian", "Ann Lee", "Bob"}

\* a variant that prefers the first name whenever it is known
SelectFirstKnown(name1, name2) ==
    IF name1 = "Unknown" THEN name2 ELSE name1

\* verify_and_select_name
verify_and_select_name(name1, name2) ==
    IF name1 = name2 \/ name2 = "Unknown" THEN name1
    ELSE IF name1 = "Unknown" THEN name2
    ELSE IF CharLen(name1) >= CharLen(name2) THEN name1 ELSE name2

ProcIdle ==
    [pc |-> "idle", doc |-> [plumber |-> FALSE, fitz |-> FALSE],
     text_pdfplumber |-> "", text_pymupdf |-> "", combined |-> "",
     email |-> Null, phone |-> Null, linkedin |-> Null, github |-> Null,
     name1 |-> "Unknown", name2 |-> "Unknown", name |-> "Unknown",
     location |-> Null,
     sections_original |-> [skills |-> "", experience |-> ""],
     sections_refined |-> [skills |-> "", experience |-> ""],
     refined_skills_text |-> "", skills_text |-> "", experience_text |-> "",
     skills |-> <<>>, total_exp |-> "",
     raisedIn |-> "none", swallowedIn |-> "none", message |-> NoError,
     result |-> [personalInfo |-> [name |-> "", email |-> "", phone |-> "",
                                   linkedin |-> "", github |-> "", location |-> ""],
                 skills |-> <<>>, total_experience |-> "", error |-> NoError]]

\* the dict of the except branch
FallbackRecord(msg) ==
    [personalInfo |-> [name |-> "Unknown", email |-> Null, phone |-> Null,
                       linkedin |-> Null, github |-> Null, location |-> Null],
     skills |-> <<>>,
     total_experience |-> ZeroExperience,
     error |-> msg]

\* the dict of the try branch
ResultRecord(p) ==
    [personalInfo |-> [name |-> p.name, email |-> p.email, phone |-> p.phone,
                       linkedin |-> p.linkedin, github |-> p.github,
                       location |-> p.location],
     skills |-> p.skills,
     total_experience |-> Or(p.total_exp, ZeroExperience),
     error |-> NoError]

\* a variant that takes the skills text from the primary segmenter only
SkillsTextPrimaryOnly(refined_skills_text, sections_original) == sections_original.skills

\* skills_text = refined_skills_text or sections_original.get("skills", "")
SkillsText(refined_skills_text, sections_original) ==
    Or(refined_skills_text, sections_original.skills)

\* a variant in which the exception leaves process_resume
Propagate(p, step, msg) ==
    [p EXCEPT !.pc = "raised", !.raisedIn = step, !.message = msg]

\* `except Exception as e`: the exception raised in `step` ends the call
\* with the fallback record
Catch(p, step, msg) ==
    [p EXCEPT !.pc = "returned", !.raisedIn = step, !.message = msg,
              !.result = FallbackRecord(msg)]

\* ------------------------------------------------------------------------
\* Sections: extract_sections_with_pymupdf.  A document is a sequence of
\* blocks; a block has its page, a column (its x0 against the midline), a y0 and one line; a
\* line has its text, the number of its words, the SECTION_PATTERNS its text
\* matches, and the font (bold, largest size) of its spans.
\* ------------------------------------------------------------------------
MaxBlocks == 2

\* the keys of SECTION_PATTERNS, in the order of the dict
SECTION_PATTERNS ==
    <<"education", "experience", "skills", "projects", "certifications",
      "summary", "languages">>

SectionKeys == {SECTION_PATTERNS[i] : i \in 1..Len(SECTION_PATTERNS)} \cup {"others"}

\* len(line_text.split()) <= 7
MaxHeaderWords == 7

\* font_size > 11
HeaderFontSize == 11

TextLine(text, words, matches, bold, size) ==
    [text |-> text, words |-> words, matches |-> matches, bold |-> bold, size |-> size]

SegmLines ==
    {TextLine("Skills", 1, {"skills"}, TRUE, 10),
     TextLine("Education", 1, {"education"}, FALSE, 14),
     TextLine("Education and Work", 3, {"education", "experience"}, TRUE, 12),
     TextLine("Python", 1, {}, FALSE, 10),
     TextLine("I work at Acme", 4, {"experience"}, FALSE, 11),
     TextLine("My skills include Python Java Go Rust and C", 9, {"skills"}, TRUE, 10),
     TextLine("", 0, {}, FALSE, 0)}

PageNumbers == 1..2

SegmBlocks == [page : PageNumbers, left : BOOLEAN, y0 : 1..2, line : SegmLines]

SegmDocs == SeqsUpTo(SegmBlocks, MaxBlocks)

\* d.get("blocks") of one page
BlocksOfPage(blocks, page) ==
    LET OnPage(b) == b.page = page
    IN SelectSeq(blocks, OnPage)

RECURSIVE InsertByY0(_, _)
\* the place sorted() gives b among blocks already in order (stable)
InsertByY0(sorted, b) ==
    IF sorted = <<>> THEN <<b>>
    ELSE IF b.y0 < Head(sorted).y0 THEN <<b>> \o sorted
    ELSE <<Head(sorted)>> \o InsertByY0(Tail(sorted), b)

RECURSIVE SortByY0From(_, _)
SortByY0From(sorted, rest) ==
    IF rest = <<>> THEN sorted
    ELSE SortByY0From(InsertByY0(sorted, Head(rest)), Tail(rest))

\* sorted(col_blocks, key=lambda b: b["bbox"][1])
SortByY0(col_blocks) == SortByY0From(<<>>, col_blocks)

\* the lines of a page in the order the loops visit them: the left column
\* top to bottom, then the right column
ReadingOrder(blocks) ==
    LET IsLeft(b) == b.left
        IsRight(b) == ~b.left
        left_col_blocks == SelectSeq(blocks, IsLeft)
        right_col_blocks == SelectSeq(blocks, IsRight)
        ordered == SortByY0(left_col_blocks) \o SortByY0(right_col_blocks)
    IN [i \in 1..Len(ordered) |-> ordered[i].line]

\* the first pattern of SECTION_PATTERNS the line matches
FirstMatch(line) ==
    SECTION_PATTERNS[CHOOSE i \in 1..Len(SECTION_PATTERNS) :
        /\ SECTION_PATTERNS[i] \in line.matches
        /\ \A j \in 1..(i - 1) : SECTION_PATTERNS[j] \notin line.matches]

\* a variant that takes any short matching line for a header, whatever its
\* font
IsSectionHeaderAnyFont(line) ==
    /\ line.words <= MaxHeaderWords
    /\ line.matches # {}

\* the line switches current_section
IsSectionHeader(line) ==
    /\ line.words <= MaxHeaderWords
    /\ line.matches # {}
    /\ (line.bold \/ line.size > HeaderFontSize)

\* the final cleanup of one section: empty lines dropped, the others joined
FinalCleanup(queue, positions) ==
    LET texts == [k \in 1..Len(positions) |-> queue[positions[k]].text]
        NonEmpty(t) == t # ""
    IN SelectSeq(texts, NonEmpty)

\* ------------------------------------------------------------------------
\* Skills: extract_skills.  The text is the sequence of the values the
\* splits on newlines, on [,;/|] and on ":" produce; a value is a sequence
\* of words, a word is its lowercase spelling `w` and its casing `c`.
\* ------------------------------------------------------------------------
MaxTokens == 3

Casings == {"lower", "title", "upper"}

Cased(base, c) == [i \in 1..Len(base) |-> [w |-> base[i], c |-> c]]

\* str.lower, str.upper
Lower(val) == [i \in 1..Len(val) |-> [val[i] EXCEPT !.c = "lower"]]

Upper(val) == [i \in 1..Len(val) |-> [val[i] EXCEPT !.c = "upper"]]

\* the lowercase spelling of a value, as the sets of the code hold it
Spelling(val) == [i \in 1..Len(val) |-> val[i].w]

SkillBases ==
    {<<"python">>, <<"excel">>, <<"skills">>, <<"testing">>, <<"rest", "api">>,
     <<"sql", "server">>, <<"machine", "learning">>}

\* values that end in a period: two words and four words
PeriodValues ==
    {Cased(<<"node", "js.">>, "lower"), Cased(<<"node", "js.">>, "title"),
     Cased(<<"data", "driven", "web", "apps.">>, "lower")}

\* the values of a text: every base in every casing, the values that end in
\* a period, and the empty value
SkillValues ==
    {Cased(b, c) : b \in SkillBases, c \in Casings} \cup PeriodValues \cup {<<>>}

SkillTexts == SeqsUpTo(SkillValues, MaxTokens)

\* the members of the code's sets among the words of SkillBases
junk_keywords == {<<"skills">>, <<"testing">>}

TECH_TERMS == {<<"python">>, <<"sql">>, <<"rest">>, <<"api">>, <<"rest", "api">>}

FORCE_UPPER == {<<"sql">>, <<"rest">>, <<"api">>}

UpperInTitle == {"ci/cd", "api", "sql"}

EndsIngEd == {"testing", "learning"}

\* str.isalpha is false of a word with a period
IsAlpha(w) == w \notin {"js.", "apps."}

\* t.endswith('.')
EndsWithPeriod(t) == t # <<>> /\ ~IsAlpha(Last(t).w)

is_person_name(s) ==
    /\ 2 <= Len(s) /\ Len(s) <= 4
    /\ \A i \in 1..Len(s) : IsAlpha(s[i].w) => s[i].c = "title"
    /\ ~\E i \in 1..Len(s) : <<s[i].w>> \in TECH_TERMS

is_short_tech_token(t) ==
    /\ t # <<>>
    /\ Len(t) <= 4
    /\ ~(EndsWithPeriod(t) /\ Len(t) > 3)
    /\ Spelling(t) \notin junk_keywords
    /\ ~(Len(t) = 1 /\ t[1].w \in EndsIngEd)
    /\ ~is_person_name(t)

\* the casing a kept value is given
Recase(val) ==
    IF Spelling(val) \in FORCE_UPPER \/ Spelling(val) \in TECH_TERMS
    THEN Upper(val)
    ELSE [i \in 1..Len(val) |->
            [val[i] EXCEPT !.c = IF Len(val) > 1 /\ val[i].w \in UpperInTitle
                                 THEN "upper" ELSE "title"]]

RECURSIVE Candidates(_)
\* the loop that fills `candidates`
Candidates(values) ==
    IF values = <<>> THEN <<>>
    ELSE LET val == Head(values)
         IN (IF val # <<>> /\ is_short_tech_token(val) THEN <<Recase(val)>> ELSE <<>>)
            \o Candidates(Tail(values))

\* a variant that keeps every candidate
DedupeNothing(candidates, seen) == candidates

RECURSIVE Dedupe(_, _)
\* the loop that fills `result`: a candidate is kept when its lowercase key
\* was not seen before
Dedupe(candidates, seen) ==
    IF candidates = <<>> THEN <<>>
    ELSE LET c == Head(candidates)
             key == Lower(c)
         IN IF key \notin seen
            THEN <<c>> \o Dedupe(Tail(candidates), seen \cup {key})
            ELSE Dedupe(Tail(candidates), seen)

\* ------------------------------------------------------------------------
\* Names: extract_name.  A line is a sequence of tokens (its split on
\* whitespace); a token has its spelling `w`, its shape (a capitalised word,
\* a lowercase word, a separator such as a dash, the label "Name:", an
\* e-mail address) and whether its lowercase form is in JOB_TITLE_WORDS.
\* A name is the sequence of its words; NoName is None.
\* ------------------------------------------------------------------------
MaxNameLines == 3

NoName == <<>>

Unknown == <<"Unknown">>

TitleWord(w) == [w |-> w, shape |-> "Title", job |-> FALSE]

JobWord(w) == [w |-> w, shape |-> "Title", job |-> TRUE]

LowerWord(w) == [w |-> w, shape |-> "lower", job |-> FALSE]

Dash == [w |-> "-", shape |-> "sep", job |-> FALSE]

NameLabel == [w |-> "Name:", shape |-> "label", job |-> FALSE]

Email == [w |-> "a@b.c", shape |-> "email", job |-> FALSE]

JohnSmithWithRole ==
    <<TitleWord("John"), TitleWord("Smith"), Dash, JobWord("Senior"),
      JobWord("Software"), JobWord("Engineer")>>

LabeledJaneRoe == <<NameLabel, TitleWord("Jane"), TitleWord("Roe")>>

NameLines ==
    {JohnSmithWithRole,
     LabeledJaneRoe,
     <<NameLabel>>,
     <<TitleWord("John")>>,
     <<TitleWord("Jane"), TitleWord("Roe")>>,
     <<TitleWord("Mary"), TitleWord("Ann"), TitleWord("Smith")>>,
     <<TitleWord("Anna"), TitleWord("Maria"), TitleWord("Del"), TitleWord("Rio")>>,
     <<JobWord("Senior"), TitleWord("John"), TitleWord("Smith")>>,
     <<JobWord("Senior"), JobWord("Software"), JobWord("Engineer")>>,
     <<LowerWord("hello"), LowerWord("world")>>,
     <<TitleWord("Resume")>>,
     <<TitleWord("Skills")>>,
     <<Email>>,
     <<>>}

NameTexts == SeqsUpTo(NameLines, MaxNameLines)

Words(tokens) == [i \in 1..Len(tokens) |-> tokens[i].w]

RECURSIVE StripLeft(_)
StripLeft(line) ==
    IF line # <<>> /\ Head(line).shape = "sep" THEN StripLeft(Tail(line)) ELSE line

RECURSIVE StripRight(_)
StripRight(line) ==
    IF line # <<>> /\ Last(line).shape = "sep" THEN StripRight(Front(line))
    ELSE IF line # <<>> /\ Last(line).shape = "label"
         THEN Front(line) \o <<TitleWord("Name")>>
    ELSE line

\* _clean_candidate: separators at both ends go, and so does the colon that
\* ends the line
_clean_candidate(line) == StripRight(StripLeft(line))

_is_skip_phrase(line) == Len(line) = 1 /\ line[1].w \in {"Resume"}

_is_section_header(line) == Len(line) = 1 /\ line[1].w \in {"Resume", "Skills"}

_bad_line(line) ==
    \/ _is_skip_phrase(line)
    \/ \E i \in 1..Len(line) : line[i].shape = "email"

_has_job_title_tokens(line) == \E i \in 1..Len(line) : line[i].job

\* ^[A-Za-z][A-Za-z.\-']*$
IsNameToken(t) == t.shape \in {"Title", "lower"}

_normalize_name_tokens(tokens) == SelectSeq(tokens, IsNameToken)

\* TITLE_NAME_RE on the cleaned candidate
_is_name_shape(s) ==
    LET c == _clean_candidate(s)
    IN /\ 2 <= Len(c) /\ Len(c) <= 6
       /\ \A i \in 1..Len(c) : c[i].shape = "Title"

RECURSIVE FirstYield(_)
\* the first candidate of a sequence of attempts, None when all defer
FirstYield(attempts) ==
    IF attempts = <<>> THEN NoName
    ELSE IF Head(attempts) # NoName THEN Head(attempts)
    ELSE FirstYield(Tail(attempts))

RECURSIVE NamePrefix(_)
\* the loop over the tokens of the first line: it stops at a role word and
\* at a token that is not a name token
NamePrefix(tokens) ==
    IF tokens = <<>> THEN <<>>
    ELSE IF Head(tokens).job \/ ~IsNameToken(Head(tokens)) THEN <<>>
    ELSE <<Head(tokens)>> \o NamePrefix(Tail(tokens))

_extract_from_first_line_with_role(lines) ==
    IF lines = <<>> THEN NoName
    ELSE LET first == _clean_candidate(lines[1])
             name_tokens == NamePrefix(first)
         IN IF first = <<>> \/ _bad_line(first) THEN NoName
            ELSE IF Len(name_tokens) = 1
                 THEN IF name_tokens[1].shape = "Title" /\ ~name_tokens[1].job
                      THEN Words(name_tokens) ELSE NoName
            ELSE IF Len(name_tokens) = 2
                 THEN IF _is_name_shape(name_tokens) THEN Words(name_tokens) ELSE NoName
            ELSE NoName

\* LABEL_SPLIT_RE.match(line)
LabelMatch(line) == line # <<>> /\ Head(line).shape = "label"

\* the lines range(idx + 1, min(idx + 3, len(lines))) visits
NextLines(lines, idx) ==
    [n \in 1..(Min(idx + 2, Len(lines)) - idx) |-> _clean_candidate(lines[idx + n])]

\* `continue` in the loops over the next lines
Unusable(nxt) == nxt = <<>> \/ _bad_line(nxt) \/ _is_section_header(nxt)

\* the candidate a sequence of tokens makes, None when it is no name
AsName(tokens) ==
    IF ~_has_job_title_tokens(tokens) /\ _is_name_shape(tokens)
    THEN Words(tokens) ELSE NoName

_extract_from_labeled_block(lines, idx) ==
    LET line == lines[idx]
        remainder == _clean_candidate(Tail(line))
        following == NextLines(lines, idx)
        Joined(nxt) ==
            LET candidate == remainder \o nxt
                tokens == _normalize_name_tokens(candidate)
            IN IF ~Unusable(nxt) /\ 2 <= Len(tokens) /\ Len(tokens) <= 6
                  /\ ~_has_job_title_tokens(candidate)
               THEN AsName(tokens) ELSE NoName
        tokens == _normalize_name_tokens(remainder)
        Merged(nxt) ==
            LET merged == Take(tokens \o _normalize_name_tokens(nxt),
                               Min(6, Len(tokens \o _normalize_name_tokens(nxt))))
            IN IF ~Unusable(nxt) /\ Len(merged) >= 2 THEN AsName(merged) ELSE NoName
    IN IF ~LabelMatch(line) THEN NoName
       ELSE FirstYield(
              <<IF Len(remainder) < 2
                THEN FirstYield([n \in 1..Len(following) |-> Joined(following[n])])
                ELSE NoName,
                IF 2 <= Len(tokens) /\ Len(tokens) <= 6 THEN AsName(tokens) ELSE NoName,
                IF Len(tokens) = 1
                THEN FirstYield([n \in 1..Len(following) |-> Merged(following[n])])
                ELSE NoName>>)

\* the loop of extract_name over the labeled lines
LabeledName(lines) ==
    FirstYield([i \in 1..Len(lines) |->
        IF LabelMatch(lines[i]) THEN _extract_from_labeled_block(lines, i) ELSE NoName])

RECURSIVE UpToHeader(_)
UpToHeader(lines) ==
    IF lines = <<>> \/ _is_section_header(Head(lines)) THEN <<>>
    ELSE <<Head(lines)>> \o UpToHeader(Tail(lines))

\* the lines before the first section header, all lines when there are none
Preface(lines) == IF UpToHeader(lines) # <<>> THEN UpToHeader(lines) ELSE lines

\* _name_score in hundredths; idx counts from 0
_name_score(cand, idx) ==
    LET n == Len(cand)
        title_tokens == Cardinality({i \in 1..n : cand[i].shape = "Title"})
    IN (IF _is_name_shape(cand) THEN 400 ELSE 0)
       + (IF 2 <= n /\ n <= 3 THEN 200 ELSE IF n = 4 THEN 100 ELSE -100)
       + 30 * title_tokens
       - (IF _has_job_title_tokens(cand) THEN 250 ELSE 0)
       - (IF _bad_line(cand) THEN 500 ELSE 0)
       + (200 - 15 * idx)

\* the best-scored line of the preface
ScoredName(lines) ==
    LET preface == Preface(lines)
        Eligible(i) ==
            LET cand == _clean_candidate(preface[i])
            IN /\ cand # <<>>
               /\ ~_bad_line(cand)
               /\ ~_has_job_title_tokens(cand)
               /\ ~_is_section_header(cand)
               /\ ~_is_skip_phrase(cand)
               /\ _is_name_shape(cand)
        Score(i) == _name_score(_clean_candidate(preface[i]), i - 1)
        eligible == {i \in 1..Len(preface) : Eligible(i)}
        best == CHOOSE i \in eligible :
                    \A j \in eligible : Score(j) < Score(i) \/ (Score(j) = Score(i) /\ i <= j)
    IN IF eligible = {} THEN NoName ELSE Words(_clean_candidate(preface[best]))

\* the loose fallback over the first lines of the preface
LooseName(lines) ==
    LET preface == Preface(lines)
        NotJob(t) == ~t.job
        Attempt(ln) ==
            LET tokens == SelectSeq(_normalize_name_tokens(ln), NotJob)
                cand == Take(tokens, Min(4, Len(tokens)))
            IN IF /\ ~_bad_line(ln) /\ ~_is_section_header(ln) /\ ~_is_skip_phrase(ln)
                  /\ 2 <= Len(tokens) /\ Len(tokens) <= 6
                  /\ ~_is_skip_phrase(cand) /\ _is_name_shape(cand)
               THEN Words(cand) ELSE NoName
    IN FirstYield([i \in 1..Min(5, Len(preface)) |-> Attempt(preface[i])])

\* the last resort: the first line itself
FirstLineName(lines) ==
    LET first == _clean_candidate(lines[1])
    IN IF _is_name_shape(first) /\ ~_is_section_header(first) /\ ~_is_skip_phrase(first)
       THEN Words(first) ELSE NoName

\* a variant that looks for a label before it looks at the first line
StrategiesLabelFirst ==
    <<"labeled_block", "first_line_with_role", "preamble_scoring", "loose_fallback",
      "first_line">>

\* the order in which extract_name tries its strategies
Strategies ==
    <<"first_line_with_role", "labeled_block", "preamble_scoring", "loose_fallback",
      "first_line">>

\* what a strategy yields for the lines
Yield(strategy, lines) ==
    CASE strategy = "first_line_with_role" -> _extract_from_first_line_with_role(lines)
      [] strategy = "labeled_block" -> LabeledName(lines)
      [] strategy = "preamble_scoring" -> ScoredName(lines)
      [] strategy = "loose_fallback" -> LooseName(lines)
      [] strategy = "first_line" -> FirstLineName(lines)

\* ------------------------------------------------------------------------
\* Phone: extract_phone.  The text is a sequence of characters: the digits,
\* "+", the separators the pattern allows between digits (a space, "-") and
\* "x" for any other character.
\* ------------------------------------------------------------------------
MaxPhonePieces == 4

PhoneDigits == {"0", "1", "2", "3", "4", "5", "6", "7", "8", "9"}

\* [\d\-\s\(\)]
PhoneInner == PhoneDigits \cup {SP, "-", "(", ")"}

MobilePrefix == {"6", "7", "8", "9"}

TenDigits == <<"9", "8", "7", "6", "5", "4", "3", "2", "1", "0">>

PhonePieces ==
    {<<"9", "8", "7", "6", "5">>, <<"4", "3", "2", "1", "0">>, <<"+", "9", "1">>,
     <<SP>>, <<"-">>, <<"x">>}

PhoneTexts == {Flatten(ps) : ps \in SeqsUpTo(PhonePieces, MaxPhonePieces)}

RECURSIVE InnerRunLen(_)
\* length of the maximal run of [\d\-\s\(\)] the text starts with
InnerRunLen(s) ==
    IF s = <<>> \/ Head(s) \notin PhoneInner THEN 0 ELSE 1 + InnerRunLen(Tail(s))

\* the length of the match of \+?\d[\d\-\s\(\)]{9,}\d at the start of s, 0
\* when there is none: the run is taken as far as it goes and given back to
\* the last digit that leaves at least nine characters in between
PhoneMatchLen(s) ==
    LET plus == IF s # <<>> /\ Head(s) = "+" THEN 1 ELSE 0
        rest == Drop(s, plus)
        run == IF rest # <<>> /\ Head(rest) \in PhoneDigits
               THEN InnerRunLen(Tail(rest)) ELSE 0
        ends == {n \in 10..run : rest[1 + n] \in PhoneDigits}
    IN IF ends = {} THEN 0
       ELSE plus + 1 + (CHOOSE n \in ends : \A k \in ends : k <= n)

RECURSIVE FindPhoneCandidates(_)
\* re.findall: the matches from left to right, none overlapping another
FindPhoneCandidates(s) ==
    IF s = <<>> THEN <<>>
    ELSE IF PhoneMatchLen(s) > 0
         THEN <<Take(s, PhoneMatchLen(s))>> \o FindPhoneCandidates(Drop(s, PhoneMatchLen(s)))
    ELSE FindPhoneCandidates(Tail(s))

\* re.sub(r'\D', '', cleaned)
DigitsOf(s) ==
    LET IsDigit(c) == c \in PhoneDigits
    IN SelectSeq(s, IsDigit)

\* a ten-digit national number starting with a mobile prefix digit is a
\* valid number of the default country
IsMobile(digits) == Len(digits) = 10 /\ Head(digits) \in MobilePrefix

\* PhoneNumberFormat.INTERNATIONAL of an Indian mobile number
FormatIN(national) ==
    <<"+", "9", "1", SP>> \o Take(national, 5) \o <<SP>> \o Drop(national, 5)

\* the national number phonenumbers.parse(cleaned, 'IN') reads: the digits
\* after "+91", or all the digits when there is no "+"
NationalIN(cleaned) ==
    LET digits == DigitsOf(cleaned)
    IN IF Head(cleaned) = "+"
       THEN IF Len(digits) > 2 /\ Take(digits, 2) = <<"9", "1">> THEN Drop(digits, 2) ELSE <<>>
       ELSE digits

\* None, for a phone number
NoPhone == <<>>

\* what one iteration of the loop over the candidates returns, NoPhone when
\* it goes on to the next candidate; lib_accepts is the verdict of
\* phonenumbers.is_valid_number on a number that is no Indian mobile number
PhoneOf(raw, lib_accepts) ==
    LET cleaned == raw
        digits == DigitsOf(cleaned)
    IN IF Len(digits) < 10 \/ Len(digits) > 15 THEN NoPhone
       ELSE IF IsMobile(digits) THEN FormatIN(digits)
       ELSE IF IsMobile(NationalIN(cleaned)) THEN FormatIN(NationalIN(cleaned))
       ELSE IF lib_accepts THEN <<"+">> \o digits
       ELSE NoPhone

\* ------------------------------------------------------------------------
\* Text extraction: extract_text_with_pdfplumber, extract_text_with_pymupdf
\* and get_combined_texts.  A page has its native text, whether that text
\* is sparse (fewer than 20 characters), the text rebuilt from its words or
\* spans, and whether reading it raises.
\* ------------------------------------------------------------------------
MaxPages == 2

RichPage ==
    [native |-> <<"a", "-", NL, "a", NL, NL, "A">>, sparse |-> FALSE,
     rebuilt |-> <<"a">>, raises |-> FALSE]

SparsePage ==
    [native |-> <<SP>>, sparse |-> TRUE, rebuilt |-> <<"A", SP, SP, "a">>,
     raises |-> FALSE]

BlankPage == [native |-> <<>>, sparse |-> TRUE, rebuilt |-> <<>>, raises |-> FALSE]

BrokenPage == [native |-> <<>>, sparse |-> TRUE, rebuilt |-> <<>>, raises |-> TRUE]

PdfPages == {RichPage, SparsePage, BlankPage, BrokenPage}

PdfFiles == [plumber : BOOLEAN, fitz : BOOLEAN, pages : SeqsUpTo(PdfPages, MaxPages)]

RECURSIVE splitlines(_)
\* str.splitlines
splitlines(txt) ==
    IF txt = <<>> THEN <<>>
    ELSE LET first == IF \E k \in 1..Len(txt) : txt[k] = NL
                      THEN (CHOOSE k \in 1..Len(txt) :
                                txt[k] = NL /\ \A j \in 1..(k - 1) : txt[j] # NL)
                      ELSE Len(txt) + 1
         IN <<Take(txt, first - 1)>> \o splitlines(Drop(txt, Min(first, Len(txt))))

RECURSIVE JoinLines(_)
\* "\n".join(lines)
JoinLines(lines) ==
    IF lines = <<>> THEN <<>>
    ELSE IF Len(lines) = 1 THEN Head(lines)
    ELSE Head(lines) \o <<NL>> \o JoinLines(Tail(lines))

\* the text of a backend from the texts of its pages: the lines of all
\* pages are dehyphenated and the non-blank ones joined
JoinPages(pages_text) ==
    LET joined == _dehyphenate_lines(Flatten([p \in 1..Len(pages_text) |->
                                                 splitlines(pages_text[p])]))
        NonBlank(l) == Strip(l) # <<>>
    IN JoinLines(SelectSeq(joined, NonBlank))

\* combined = ((txt1 or "") + "\n" + (txt2 or "")).strip()
CombinedText(txt1, txt2) == Strip(txt1 \o <<NL>> \o txt2)

\* a variant in which the exception leaves the backend
Reraise(x, backend) == [x EXCEPT !.pc = "raised"]

\* `except Exception: return ""` of a backend
ReturnEmpty(x, backend) ==
    IF backend = "pdfplumber"
    THEN [x EXCEPT !.txt1 = <<>>, !.failed = @ \cup {backend}, !.pc = "fitz_open"]
    ELSE [x EXCEPT !.txt2 = <<>>, !.failed = @ \cup {backend}, !.pc = "combine"]

\* ------------------------------------------------------------------------
\* HTTP layer: /parse-resume and /parse-multiple of backend_api.py.  An
\* upload has an extension that is supported or not, a body whose read or
\* whose write into the temporary file may fail, the outcome of
\* process_resume on it, and whether os.unlink of its temporary file
\* succeeds.  A temporary file is named by the position of its upload.
\* ------------------------------------------------------------------------
MaxFiles == 2

Uploads ==
    [supported : BOOLEAN, io : {"ok", "read_fails", "write_fails"},
     parse : {"record", "fallback", "raises"}, unlink : {"ok", "fails"}]

\* a record process_resume returns when no step raised
SampleRecord ==
    [personalInfo |-> [name |-> NameA, email |-> "a@b.c", phone |-> Null,
                       linkedin |-> Null, github |-> Null, location |-> Null],
     skills |-> <<"PYTHON">>,
     total_experience |-> "2 years and 11 months",
     error |-> NoError]

Unsupported400 == "Unsupported file type. Please upload PDF, DOCX, TXT, or RTF files."

NoResponse == [status |-> 0, kind |-> "none"]

\* JSONResponse(content=result_data) of /parse-resume
SuccessResponse(data) ==
    [status |-> 200, kind |-> "parsed", data |-> data,
     metadata |-> [processing_status |-> "success"]]

\* the JSONResponse of `except Exception as e` of /parse-resume
ErrorResponse(msg) ==
    [status |-> 500, kind |-> "error", error |-> msg, processing_status |-> "failed",
     metadata |-> [file_size |-> 0]]

\* transformed_data of /parse-multiple: the fields of the record it keeps
TransformedData(result_data) ==
    [name |-> result_data.personalInfo.name,
     email |-> result_data.personalInfo.email,
     phone |-> result_data.personalInfo.phone,
     location |-> result_data.personalInfo.location,
     linkedin |-> result_data.personalInfo.linkedin,
     github |-> result_data.personalInfo.github,
     skills |-> result_data.skills,
     total_experience |-> result_data.total_experience,
     summary |-> "", experience |-> "", education |-> ""]

\* the entries of `results` of /parse-multiple
SuccessEntry(k, data) == [file |-> k, success |-> TRUE, data |-> data, error |-> Null]

FailureEntry(k, msg) == [file |-> k, success |-> FALSE, data |-> Null, error |-> msg]

\* the handling of upload h.k has ended: /parse-resume is done,
\* /parse-multiple goes on with the next file
EndUpload(h) ==
    [h EXCEPT !.handled = @ \cup {h.k},
              !.k = IF h.endpoint = "parse-multiple" THEN @ + 1 ELSE @,
              !.pc = IF h.endpoint = "parse-multiple" THEN "validate" ELSE "done"]

\* `except Exception as e` of either endpoint
HandleException(h, msg) ==
    IF h.endpoint = "parse-resume"
    THEN EndUpload([h EXCEPT !.response = ErrorResponse(msg)])
    ELSE EndUpload([h EXCEPT !.results = Append(@, FailureEntry(h.k, msg))])

\* ------------------------------------------------------------------------
\* Refined sections: extract_sections_with_pymupdf_refined.  The document
\* is the sequence of the lines of all_page_blocks; a line has its page,
\* its y0 on that page, its text, the header pattern its text matches (if
\* any) and its font.  On a page the lines come top to bottom.
\* ------------------------------------------------------------------------
MaxRefinedLines == 3

Preamble == "__preamble__"

RefinedKeys == {"skills", "education", Preamble}

RefinedText(text, which, bold, big) ==
    [text |-> text, which |-> which, bold |-> bold, big |-> big]

RefinedTexts ==
    {RefinedText("Skills", "skills", TRUE, FALSE),
     RefinedText("Education", "education", FALSE, TRUE),
     RefinedText("skills", "skills", FALSE, FALSE),
     RefinedText("Python", "none", FALSE, FALSE),
     RefinedText("", "none", FALSE, FALSE)}

RefinedLines == [page : PageNumbers, y0 : 1..3, line : RefinedTexts]

\* the line a comes before the line b in the document
Above(a, b) == a.page < b.page \/ (a.page = b.page /\ a.y0 < b.y0)

RefinedDocs ==
    {d \in SeqsUpTo(RefinedLines, MaxRefinedLines) :
        \A k \in 1..(Len(d) - 1) : Above(d[k], d[k + 1])}

\* _alt_which_header(line_text) and _alt_line_is_header(...): the patterns
\* of the model's texts have at most five words and no "engineer"
IsRefinedHeader(l) == l.line.which # "none" /\ (l.line.bold \/ l.line.big)

\* the pre-pass: name and y0 of every header line, sorted by y0
HeaderInfo(lines) ==
    LET headers == SelectSeq(lines, IsRefinedHeader)
    IN SortByY0([k \in 1..Len(headers) |->
                    [name |-> headers[k].line.which, y0 |-> headers[k].y0]])

RECURSIVE BestMatchHeader(_, _, _)
\* the loop over header_info: the last header whose y0 is below the line's
\* y0, before the first one that is not
BestMatchHeader(header_info, y0, best) ==
    IF header_info = <<>> \/ ~(y0 > Head(header_info).y0) THEN best
    ELSE BestMatchHeader(Tail(header_info), y0, Head(header_info).name)

RECURSIVE KeptIntervals(_, _)
\* the loop over the matches: the intervals it appends, for the date `now`
KeptIntervals(matches, now) ==
    IF matches = <<>> THEN <<>>
    ELSE LET start_dt == parse_date(Head(matches).start)
             end_dt == EndOf(Head(matches).end, now)
         IN (IF KeepsInterval(start_dt, end_dt)
             THEN <<[s |-> start_dt, e |-> end_dt]>> ELSE <<>>)
            \o KeptIntervals(Tail(matches), now)

\* calculate_total_experience as a function of the matched ranges and of
\* datetime.now(): <<years, months>> of the returned string
calculate_total_experience(matches, now) ==
    LET intervals == KeptIntervals(matches, now)
        merged == MergeIntervals(SortByStart(intervals))
        capped == CapTotal(SumMonths(merged), RelMonths(now, merged[1].s))
    IN IF intervals = <<>> THEN <<0, 0>>
       ELSE <<capped \div 12, capped % 12>>

\* ------------------------------------------------------------------------
\* Idle values: a specification leaves the other components at rest
\* ------------------------------------------------------------------------
NormIdle == [txt |-> <<>>, once |-> <<>>, twice |-> <<>>, calls |-> 0]

DehyIdle == [lines |-> <<>>, out |-> <<>>, done |-> FALSE]

ExpeIdle ==
    [now |-> NoDate, matches |-> <<>>, intervals |-> <<>>, merged |-> <<>>,
     total_months |-> 0, max_months |-> 0, years |-> 0, months |-> 0,
     pc |-> "idle"]

SegmIdle ==
    [pc |-> "idle", blocks |-> <<>>, page |-> 0, queue |-> <<>>, i |-> 0,
     current_section |-> "others",
     parsed_sections |-> [k \in SectionKeys |-> <<>>],
     headers |-> {},
     final_sections |-> [k \in SectionKeys |-> <<>>]]

SkilIdle == [pc |-> "idle", text |-> <<>>, candidates |-> <<>>, result |-> <<>>]

NameIdle ==
    [pc |-> "idle", text |-> <<>>, lines |-> <<>>, k |-> 0, consulted |-> <<>>,
     result |-> NoName]

PhonIdle ==
    [pc |-> "idle", text |-> <<>>, lib_accepts |-> FALSE, candidates |-> <<>>,
     i |-> 0, result |-> NoPhone]

ExtrIdle ==
    [pc |-> "idle", file |-> [plumber |-> FALSE, fitz |-> FALSE, pages |-> <<>>],
     p |-> 0, pages_text |-> <<>>, txt1 |-> <<>>, txt2 |-> <<>>, failed |-> {},
     swallowed |-> 0, result |-> <<>>]

HttpIdle ==
    [pc |-> "idle", endpoint |-> "none", files |-> <<>>, k |-> 0, tmp |-> {},
     created |-> {}, called |-> {}, handled |-> {}, pending |-> NoError,
     data |-> Null, results |-> <<>>, response |-> NoResponse]

RefiIdle ==
    [pc |-> "idle", lines |-> <<>>, header_info |-> <<>>, i |-> 0,
     current_section |-> Preamble,
     parsed_sections |-> [k \in RefinedKeys |-> <<>>],
     final_sections |-> [k \in {} |-> <<>>]]

VeriIdle ==
    [pc |-> "idle", name1 |-> "Unknown", name2 |-> "Unknown", selected |-> "Unknown"]

DeteIdle ==
    [pc |-> "idle", matches |-> <<>>, now1 |-> NoDate, now2 |-> NoDate,
     result1 |-> <<0, 0>>, result2 |-> <<0, 0>>]

NotNorm == <<dehy, expe, proc, segm, skil, nam, phon, extr, http, refi, veri, dete>>

NotNormIdle ==
    /\ dehy = DehyIdle
    /\ expe = ExpeIdle
    /\ proc = ProcIdle
    /\ segm = SegmIdle
    /\ skil = SkilIdle
    /\ nam = NameIdle
    /\ phon = PhonIdle
    /\ extr = ExtrIdle
    /\ http = HttpIdle
    /\ refi = RefiIdle
    /\ veri = VeriIdle
    /\ dete = DeteIdle

NotDehy == <<norm, expe, proc, segm, skil, nam, phon, extr, http, refi, veri, dete>>

NotDehyIdle ==
    /\ norm = NormIdle
    /\ expe = ExpeIdle
    /\ proc = ProcIdle
    /\ segm = SegmIdle
    /\ skil = SkilIdle
    /\ nam = NameIdle
    /\ phon = PhonIdle
    /\ extr = ExtrIdle
    /\ http = HttpIdle
    /\ refi = RefiIdle
    /\ veri = VeriIdle
    /\ dete = DeteIdle

NotExpe == <<norm, dehy, proc, segm, skil, nam, phon, extr, http, refi, veri, dete>>

NotExpeIdle ==
    /\ norm = NormIdle
    /\ dehy = DehyIdle
    /\ proc = ProcIdle
    /\ segm = SegmIdle
    /\ skil = SkilIdle
    /\ nam = NameIdle
    /\ phon = PhonIdle
    /\ extr = ExtrIdle
    /\ http = HttpIdle
    /\ refi = RefiIdle
    /\ veri = VeriIdle
    /\ dete = DeteIdle

NotProc == <<norm, dehy, expe, segm, skil, nam, phon, extr, http, refi, veri, dete>>

NotProcIdle ==
    /\ norm = NormIdle
    /\ dehy = DehyIdle
    /\ expe = ExpeIdle
    /\ segm = SegmIdle
    /\ skil = SkilIdle
    /\ nam = NameIdle
    /\ phon = PhonIdle
    /\ extr = ExtrIdle
    /\ http = HttpIdle
    /\ refi = RefiIdle
    /\ veri = VeriIdle
    /\ dete = DeteIdle

NotSegm == <<norm, dehy, expe, proc, skil, nam, phon, extr, http, refi, veri, dete>>

NotSegmIdle ==
    /\ norm = NormIdle
    /\ dehy = DehyIdle
    /\ expe = ExpeIdle
    /\ proc = ProcIdle
    /\ skil = SkilIdle
    /\ nam = NameIdle
    /\ phon = PhonIdle
    /\ extr = ExtrIdle
    /\ http = HttpIdle
    /\ refi = RefiIdle
    /\ veri = VeriIdle
    /\ dete = DeteIdle

NotSkil == <<norm, dehy, expe, proc, segm, nam, phon, extr, http, refi, veri, dete>>

NotSkilIdle ==
    /\ norm = NormIdle
    /\ dehy = DehyIdle
    /\ expe = ExpeIdle
    /\ proc = ProcIdle
    /\ segm = SegmIdle
    /\ nam = NameIdle
    /\ phon = PhonIdle
    /\ extr = ExtrIdle
    /\ http = HttpIdle
    /\ refi = RefiIdle
    /\ veri = VeriIdle
    /\ dete = DeteIdle

NotName == <<norm, dehy, expe, proc, segm, skil, phon, extr, http, refi, veri, dete>>

NotNameIdle ==
    /\ norm = NormIdle
    /\ dehy = DehyIdle
    /\ expe = ExpeIdle
    /\ proc = ProcIdle
    /\ segm = SegmIdle
    /\ skil = SkilIdle
    /\ phon = PhonIdle
    /\ extr = ExtrIdle
    /\ http = HttpIdle
    /\ refi = RefiIdle
    /\ veri = VeriIdle
    /\ dete = DeteIdle

NotPhon == <<norm, dehy, expe, proc, segm, skil, nam, extr, http, refi, veri, dete>>

NotPhonIdle ==
    /\ norm = NormIdle
    /\ dehy = DehyIdle
    /\ expe = ExpeIdle
    /\ proc = ProcIdle
    /\ segm = SegmIdle
    /\ skil = SkilIdle
    /\ nam = NameIdle
    /\ extr = ExtrIdle
    /\ http = HttpIdle
    /\ refi = RefiIdle
    /\ veri = VeriIdle
    /\ dete = DeteIdle

NotExtr == <<norm, dehy, expe, proc, segm, skil, nam, phon, http, refi, veri, dete>>

NotExtrIdle ==
    /\ norm = NormIdle
    /\ dehy = DehyIdle
    /\ expe = ExpeIdle
    /\ proc = ProcIdle
    /\ segm = SegmIdle
    /\ skil = SkilIdle
    /\ nam = NameIdle
    /\ phon = PhonIdle
    /\ http = HttpIdle
    /\ refi = RefiIdle
    /\ veri = VeriIdle
    /\ dete = DeteIdle

NotHttp == <<norm, dehy, expe, proc, segm, skil, nam, phon, extr, refi, veri, dete>>

NotHttpIdle ==
    /\ norm = NormIdle
    /\ dehy = DehyIdle
    /\ expe = ExpeIdle
    /\ proc = ProcIdle
    /\ segm = SegmIdle
    /\ skil = SkilIdle
    /\ nam = NameIdle
    /\ phon = PhonIdle
    /\ extr = ExtrIdle
    /\ refi = RefiIdle
    /\ veri = VeriIdle
    /\ dete = DeteIdle

NotRefi == <<norm, dehy, expe, proc, segm, skil, nam, phon, extr, http, veri, dete>>

NotRefiIdle ==
    /\ norm = NormIdle
    /\ dehy = DehyIdle
    /\ expe = ExpeIdle
    /\ proc = ProcIdle
    /\ segm = SegmIdle
    /\ skil = SkilIdle
    /\ nam = NameIdle
    /\ phon = PhonIdle
    /\ extr = ExtrIdle
    /\ http = HttpIdle
    /\ veri = VeriIdle
    /\ dete = DeteIdle

NotVeri == <<norm, dehy, expe, proc, segm, skil, nam, phon, extr, http, refi, dete>>

NotVeriIdle ==
    /\ norm = NormIdle
    /\ dehy = DehyIdle
    /\ expe = ExpeIdle
    /\ proc = ProcIdle
    /\ segm = SegmIdle
    /\ skil = SkilIdle
    /\ nam = NameIdle
    /\ phon = PhonIdle
    /\ extr = ExtrIdle
    /\ http = HttpIdle
    /\ refi = RefiIdle
    /\ dete = DeteIdle

NotDete == <<norm, dehy, expe, proc, segm, skil, nam, phon, extr, http, refi, veri>>

NotDeteIdle ==
    /\ norm = NormIdle
    /\ dehy = DehyIdle
    /\ expe = ExpeIdle
    /\ proc = ProcIdle
    /\ segm = SegmIdle
    /\ skil = SkilIdle
    /\ nam = NameIdle
    /\ phon = PhonIdle
    /\ extr = ExtrIdle
    /\ http = HttpIdle
    /\ refi = RefiIdle
    /\ veri = VeriIdle

\* ------------------------------------------------------------------------
\* NormSpec: a page text is normalized (as each backend does per page), and
\* the result is normalized once more
\* ------------------------------------------------------------------------
NormInit ==
    /\ norm \in {[NormIdle EXCEPT !.txt = t] : t \in NormInputs}
    /\ NotNormIdle

Normalize ==
    /\ norm.calls = 0
    /\ norm' = [norm EXCEPT !.once = _normalize_text_block(norm.txt), !.calls = 1]
    /\ UNCHANGED NotNorm

NormalizeAgain ==
    /\ norm.calls = 1
    /\ norm' = [norm EXCEPT !.twice = _normalize_text_block(norm.once), !.calls = 2]
    /\ UNCHANGED NotNorm

NormNext == Normalize \/ NormalizeAgain

NormSpec == NormInit /\ [][NormNext]_vars

\* C4: _normalize_text_block is idempotent: normalizing its own output
\* gives that output back, for every input text (blank lines, whitespace
\* runs and "Page N of M" footer lines included).
C4_NormalizeIdempotent == norm.calls = 2 => norm.twice = norm.once

\* ------------------------------------------------------------------------
\* DehySpec: the joined page lines are dehyphenated
\* ------------------------------------------------------------------------
DehyInit ==
    /\ dehy \in {[DehyIdle EXCEPT !.lines = ls] : ls \in DehyInputs}
    /\ NotDehyIdle

Dehyphenate ==
    /\ ~dehy.done
    /\ dehy' = [dehy EXCEPT !.out = _dehyphenate_lines(dehy.lines), !.done = TRUE]
    /\ UNCHANGED NotDehy

DehyNext == Dehyphenate

DehySpec == DehyInit /\ [][DehyNext]_vars

\* What the claim says of a sequence of lines, stated on the input alone.
\* Line i is joined to its predecessor when the predecessor ends with a
\* hyphen (`hy` tells whether a line does) and line i starts with a
\* lowercase letter; the output lines are the maximal groups of joined
\* lines, each line but the last of a group losing its hyphen (`cut`).
JoinedLines(lines, hy(_)) ==
    {i \in 2..Len(lines) : hy(lines[i - 1]) /\ StartsLower(lines[i])}

GroupStarts(lines, hy(_)) == (1..Len(lines)) \ JoinedLines(lines, hy)

KthStart(lines, hy(_), k) ==
    CHOOSE i \in GroupStarts(lines, hy) :
        Cardinality({j \in GroupStarts(lines, hy) : j <= i}) = k

GroupEnd(lines, hy(_), s) ==
    CHOOSE e \in s..Len(lines) :
        /\ \A j \in (s + 1)..e : j \in JoinedLines(lines, hy)
        /\ e + 1 \notin JoinedLines(lines, hy)

RECURSIVE GroupText(_, _, _, _)
GroupText(lines, cut(_), s, e) ==
    IF s = e THEN lines[e]
    ELSE cut(lines[s]) \o GroupText(lines, cut, s + 1, e)

JoinedOutput(lines, hy(_), cut(_)) ==
    [k \in 1..Cardinality(GroupStarts(lines, hy)) |->
        LET s == KthStart(lines, hy, k)
        IN GroupText(lines, cut, s, GroupEnd(lines, hy, s))]

\* the claim's reading: the line itself ends with the hyphen
HyphenLast(ln) == EndsWithHyphen(ln)

CutLast(ln) == Front(ln)

\* the code's reading: the hyphen may be followed by trailing whitespace,
\* which is dropped with it
HyphenBeforeWs(ln) == EndsWithHyphen(RStrip(ln))

CutHyphenAndWs(ln) == Front(RStrip(ln))

\* C5 as stated: a line is joined to the preceding output line exactly when
\* that line ends with a hyphen and the line begins with a lowercase letter;
\* every other line is kept unchanged and in order.
C5_DehyphenateAsStated ==
    dehy.done => dehy.out = JoinedOutput(dehy.lines, HyphenLast, CutLast)

\* C5 amended: a line is joined to the preceding output line exactly when
\* that line ends with a hyphen, optionally followed by trailing whitespace,
\* and the line begins with a lowercase letter; the hyphen and that
\* whitespace are dropped; every other line is kept unchanged and in order.
\* ["collabo-", "ration"] yields ["collaboration"].
C5_Dehyphenate ==
    dehy.done =>
        /\ dehy.out = JoinedOutput(dehy.lines, HyphenBeforeWs, CutHyphenAndWs)
        /\ (dehy.lines = <<<<"a", "-">>, <<"a">>>> => dehy.out = <<<<"a", "a">>>>)

\* a word split over two lines has been joined, and a chain of three too
C5_Witness ==
    /\ dehy.done
    /\ dehy.lines = <<<<"a", "-">>, <<"a", "-", SP>>, <<"a">>>>
    /\ dehy.out = <<<<"a", "a", "a">>>>

\* ------------------------------------------------------------------------
\* ExpeSpec: calculate_total_experience over the experience text.  ScanMatch
\* is one iteration of the loop over the pattern's matches; Total is the
\* rest of the function (sort, merge, sum, caps, formatting).
\* ------------------------------------------------------------------------
ExpeInit ==
    /\ expe \in {[ExpeIdle EXCEPT !.now = n, !.pc = "scan"] : n \in Nows}
    /\ NotExpeIdle

ScanMatch ==
    /\ expe.pc = "scan"
    /\ Len(expe.matches) < MaxMatches
    /\ \E r \in DateRanges :
        LET start_dt == parse_date(r.start)
            end_dt == EndOf(r.end, expe.now)
        IN expe' = [expe EXCEPT
                !.matches = Append(@, r),
                !.intervals = IF KeepsInterval(start_dt, end_dt)
                              THEN Append(@, [s |-> start_dt, e |-> end_dt])
                              ELSE @]
    /\ UNCHANGED NotExpe

Total ==
    /\ expe.pc = "scan"
    /\ IF expe.intervals = <<>>
       THEN expe' = [expe EXCEPT !.pc = "done"]
       ELSE LET merged == MergeIntervals(SortByStart(expe.intervals))
                total_months == SumMonths(merged)
                max_months == RelMonths(expe.now, merged[1].s)
                capped == CapTotal(total_months, max_months)
            IN expe' = [expe EXCEPT
                    !.merged = merged,
                    !.total_months = total_months,
                    !.max_months = max_months,
                    !.years = capped \div 12,
                    !.months = capped % 12,
                    !.pc = "done"]
    /\ UNCHANGED NotExpe

ExpeNext == ScanMatch \/ Total

ExpeSpec == ExpeInit /\ [][ExpeNext]_vars

\* the months the function reports
Reported == 12 * expe.years + expe.months

\* the one-month steps [k, k+1] that lie inside some kept interval: each is
\* counted once however many intervals cover it
CoveredSteps ==
    LET ivs == {expe.intervals[i] : i \in 1..Len(expe.intervals)}
    IN UNION {{k \in iv.s.idx..(iv.e.idx - 1) : TRUE} : iv \in ivs}

\* the spans of `merged` are in order and do not overlap
SpansDisjoint ==
    \A i \in 1..(Len(expe.merged) - 1) :
        Before(expe.merged[i].e, expe.merged[i + 1].s)

\* C6: overlapping ranges count once: the kept intervals are merged into
\* non-overlapping spans whose elapsed months, summed, are total_months (the
\* total the caps are then applied to); the reported total is that sum
\* whenever no range ends after the current date.  Jan 2019-Jun 2020 and Mar 2020-Dec 2021
\* merge to Jan 2019-Dec 2021 and give "2 years and 11 months".
C6_OverlapCountedOnce ==
    expe.pc = "done" =>
        /\ SpansDisjoint
        /\ expe.total_months = Cardinality(CoveredSteps)
        /\ (\A i \in 1..Len(expe.intervals) :
                AtOrBefore(expe.intervals[i].e, expe.now))
            => Reported = Cardinality(CoveredSteps)
        /\ expe.matches = <<R_Jan2019_Jun2020, R_Mar2020_Dec2021>>
            => /\ expe.merged = <<[s |-> parse_date(MonthYear(1, 2019)),
                                   e |-> parse_date(MonthYear(12, 2021))]>>
               /\ expe.years = 2 /\ expe.months = 11

C6_Witness ==
    /\ expe.pc = "done"
    /\ expe.matches = <<R_Jan2019_Jun2020, R_Mar2020_Dec2021>>
    /\ expe.years = 2 /\ expe.months = 11

\* the interval iv lies inside the span m
Contains(m, iv) == AtOrBefore(m.s, iv.s) /\ AtOrBefore(iv.e, m.e)

\* C19: after the sweep the merged spans are in order of start and each
\* starts strictly after the end of the one before; every kept interval
\* lies inside exactly one span; and an interval that starts at or before
\* the end of a span (at the end included) lies in that span and does not
\* start a span of its own.
C19_MergedSpans ==
    (expe.pc = "done" /\ expe.intervals # <<>>) =>
        /\ \A i \in 1..(Len(expe.merged) - 1) :
              /\ Before(expe.merged[i].s, expe.merged[i + 1].s)
              /\ Before(expe.merged[i].e, expe.merged[i + 1].s)
        /\ \A i \in 1..Len(expe.intervals) :
              Cardinality({k \in 1..Len(expe.merged) :
                              Contains(expe.merged[k], expe.intervals[i])}) = 1
        /\ \A i \in 1..Len(expe.intervals), k \in 1..Len(expe.merged) :
              (/\ AtOrBefore(expe.merged[k].s, expe.intervals[i].s)
               /\ AtOrBefore(expe.intervals[i].s, expe.merged[k].e))
              => /\ Contains(expe.merged[k], expe.intervals[i])
                 /\ \A j \in 1..Len(expe.merged) :
                       expe.merged[j].s = expe.intervals[i].s => j = k

\* unsorted ranges, two of which meet in June 2020, end as two spans
C19_Witness ==
    /\ expe.pc = "done"
    /\ expe.matches = <<Range(MonthYear(6, 2020), MonthYear(12, 2021)),
                        R_Jan2019_Jun2020,
                        Range(MonthYear(1, 2010), MonthYear(12, 2012))>>
    /\ expe.merged = <<[s |-> parse_date(MonthYear(1, 2010)),
                        e |-> parse_date(MonthYear(12, 2012))],
                       [s |-> parse_date(MonthYear(1, 2019)),
                        e |-> parse_date(MonthYear(12, 2021))]>>

\* C26: whatever the ranges of the text, those that start or end after the
\* current date included, the result is "<N> years and <M> months" with
\* N >= 0 and 0 <= M <= 11: the total of months is never negative.
C26_TotalNeverNegative ==
    expe.pc = "done" =>
        /\ expe.years >= 0
        /\ expe.months \in 0..11
        /\ Reported >= 0

\* the pair of dates a matched range stands for
IntervalOf(r) ==
    LET s == parse_date(r.start)
        e == EndOf(r.end, expe.now)
    IN [s |-> s, e |-> e]

WellFormed(iv) ==
    /\ iv.s # NoDate
    /\ iv.e # NoDate
    /\ AtOrBefore(iv.s, iv.e)
    /\ YearOf(iv.s) >= 1980
    /\ YearOf(iv.e) - YearOf(iv.s) <= 20

RECURSIVE WellFormedOnly(_)
WellFormedOnly(rs) ==
    IF rs = <<>> THEN <<>>
    ELSE (IF WellFormed(IntervalOf(Head(rs))) THEN <<IntervalOf(Head(rs))>> ELSE <<>>)
         \o WellFormedOnly(Tail(rs))

\* C7: every interval that contributes satisfies end >= start, start.year
\* >= 1980 and end.year - start.year <= 20; a range violating one of these
\* is discarded, not clamped, and a text whose only ranges are 1975-1976 or
\* 1990-2015 yields "0 years and 0 months".
C7_InvalidDiscarded ==
    /\ expe.intervals = WellFormedOnly(expe.matches)
    /\ (/\ expe.pc = "done"
        /\ \A i \in 1..Len(expe.matches) :
              expe.matches[i] \in {R_1975_1976, R_1990_2015})
        => (expe.years = 0 /\ expe.months = 0)

C7_Witness ==
    /\ expe.pc = "done"
    /\ expe.matches = <<R_1975_1976, R_1990_2015, R_1975_1976>>
    /\ expe.intervals = <<>>
    /\ expe.years = 0 /\ expe.months = 0

\* the earliest start among the kept intervals
EarliestStart ==
    LET ss == {expe.intervals[i].s : i \in 1..Len(expe.intervals)}
    IN CHOOSE s \in ss : \A t \in ss : AtOrBefore(s, t)

\* C8: the months reported never exceed the elapsed months between the
\* earliest valid interval's start and the current date, nor 600 months.
C8_TotalCapped ==
    (expe.pc = "done" /\ expe.intervals # <<>>) =>
        /\ Reported <= RelMonths(expe.now, EarliestStart)
        /\ Reported <= 600

\* the cap has cut a sum that exceeded the elapsed time
C8_Witness ==
    /\ expe.pc = "done"
    /\ expe.total_months > expe.max_months
    /\ expe.max_months > 0
    /\ Reported = expe.max_months

\* ------------------------------------------------------------------------
\* ProcSpec: one call of process_resume, statement by statement.  Every
\* statement of the try block may raise an exception instead of completing.
\* ------------------------------------------------------------------------
ProcInit ==
    /\ proc \in {[ProcIdle EXCEPT !.pc = "get_combined_texts", !.doc = d] : d \in Documents}
    /\ NotProcIdle

\* the statement at `step` raises (any statement of the outer try block)
Raises(step) ==
    /\ proc.pc = step
    /\ \E msg \in Messages : proc' = Catch(proc, step, msg)

GetCombinedTexts ==
    /\ proc.pc = "get_combined_texts"
    /\ LET txt1 == TextOf(proc.doc.plumber, "TA")
           txt2 == TextOf(proc.doc.fitz, "TB")
       IN proc' = [proc EXCEPT !.text_pdfplumber = txt1, !.text_pymupdf = txt2,
                               !.combined = Combined(txt1, txt2),
                               !.pc = "extract_contacts"]
    /\ UNCHANGED NotProc

\* extract_email, extract_phone, extract_linkedin, extract_github
ExtractContacts ==
    /\ proc.pc = "extract_contacts"
    /\ \/ LET text == Or(proc.text_pdfplumber, proc.combined)
          IN \E e \in Found(text, "a@b.c", Null), ph \in Found(text, "+91 98765 43210", Null),
                l \in Found(text, "https://www.linkedin.com/in/u", Null),
                g \in Found(text, "https://github.com/u", Null) :
                proc' = [proc EXCEPT !.email = e, !.phone = ph, !.linkedin = l,
                                     !.github = g, !.pc = "extract_name"]
       \/ Raises("extract_contacts")
    /\ UNCHANGED NotProc

\* verify_and_select_name(extract_name(..), extract_name(..))
ExtractName ==
    /\ proc.pc = "extract_name"
    /\ \/ \E n1 \in Found(Or(proc.text_pdfplumber, proc.combined), NameA, "Unknown"),
             n2 \in Found(Or(proc.text_pymupdf, proc.combined), NameA, "Unknown")
                        \cup Found(Or(proc.text_pymupdf, proc.combined), NameB, "Unknown") :
                proc' = [proc EXCEPT !.name1 = n1, !.name2 = n2,
                                     !.name = verify_and_select_name(n1, n2),
                                     !.pc = "extract_location"]
       \/ Raises("extract_name")
    /\ UNCHANGED NotProc

ExtractLocation ==
    /\ proc.pc = "extract_location"
    /\ \/ \E loc \in Found(Or(proc.text_pdfplumber, proc.combined), "Pune, India", Null) :
                proc' = [proc EXCEPT !.location = loc,
                                     !.pc = "extract_sections_with_pymupdf"]
       \/ Raises("extract_location")
    /\ UNCHANGED NotProc

\* sections_original = extract_sections_with_pymupdf(file_path): fitz.open
\* raises when PyMuPDF cannot open the document
ExtractSections ==
    /\ proc.pc = "extract_sections_with_pymupdf"
    /\ \/ /\ proc.doc.fitz
          /\ \E sk \in {"", "SK"}, ex \in {"", "EX"} :
                proc' = [proc EXCEPT !.sections_original = [skills |-> sk, experience |-> ex],
                                     !.pc = "extract_sections_with_pymupdf_refined"]
       \/ /\ ~proc.doc.fitz
          /\ proc' = Catch(proc, "extract_sections_with_pymupdf", OpenFailed)
       \/ Raises("extract_sections_with_pymupdf")
    /\ UNCHANGED NotProc

\* the inner try: an exception of the refined segmenter is caught there and
\* leaves refined_skills_text empty
ExtractSectionsRefined ==
    /\ proc.pc = "extract_sections_with_pymupdf_refined"
    /\ \/ \E sk \in {"", "SKR"}, ex \in {"", "EXR"} :
                proc' = [proc EXCEPT !.sections_refined = [skills |-> sk, experience |-> ex],
                                     !.refined_skills_text = sk, !.pc = "extract_skills"]
       \/ proc' = [proc EXCEPT !.refined_skills_text = "",
                               !.swallowedIn = "extract_sections_with_pymupdf_refined",
                               !.pc = "extract_skills"]
    /\ UNCHANGED NotProc

ExtractSkills ==
    /\ proc.pc = "extract_skills"
    /\ \/ LET skills_text == SkillsText(proc.refined_skills_text, proc.sections_original)
          IN \E sk \in Found(skills_text, <<"PYTHON">>, <<>>) :
                proc' = [proc EXCEPT !.skills_text = skills_text, !.skills = sk,
                                     !.pc = "calculate_total_experience"]
       \/ Raises("extract_skills")
    /\ UNCHANGED NotProc

CalculateTotalExperience ==
    /\ proc.pc = "calculate_total_experience"
    /\ \/ \E t \in Found(proc.sections_original.experience, "2 years and 11 months",
                         ZeroExperience) :
                proc' = [proc EXCEPT !.experience_text = proc.sections_original.experience,
                                     !.total_exp = t, !.pc = "json.dumps"]
       \/ Raises("calculate_total_experience")
    /\ UNCHANGED NotProc

\* result = {...}; return json.dumps(result, ...)
ReturnResult ==
    /\ proc.pc = "json.dumps"
    /\ \/ proc' = [proc EXCEPT !.result = ResultRecord(proc), !.pc = "returned"]
       \/ Raises("json.dumps")
    /\ UNCHANGED NotProc

ProcNext ==
    \/ GetCombinedTexts
    \/ ExtractContacts
    \/ ExtractName
    \/ ExtractLocation
    \/ ExtractSections
    \/ ExtractSectionsRefined
    \/ ExtractSkills
    \/ CalculateTotalExperience
    \/ ReturnResult

ProcSpec == ProcInit /\ [][ProcNext]_vars

StringOrNull(v) == v \in STRING

\* the shape of the record of the external interface
WellFormedRecord(r) ==
    /\ r.personalInfo.name \in STRING /\ r.personalInfo.name # Null
    /\ \A k \in {"email", "phone", "linkedin", "github", "location"} :
          r.personalInfo[k] \in STRING
    /\ r.skills \in Seq(STRING)
    /\ r.total_experience \in {ZeroExperience, "2 years and 11 months"}

\* C1: process_resume never raises to its caller: whichever step throws,
\* the call does not end by propagating the exception, and what it returns
\* is a well-formed record.
C1_NeverRaises ==
    /\ proc.pc # "raised"
    /\ proc.pc = "returned" => WellFormedRecord(proc.result)
    /\ proc.raisedIn # "none" => proc.pc = "returned"

\* a step has thrown and the call has returned a record
C1_Witness ==
    /\ proc.pc = "returned"
    /\ proc.raisedIn = "extract_skills"
    /\ WellFormedRecord(proc.result)

\* C2: whenever an exception reaches the handler of process_resume, the
\* record returned is exactly the fallback record: name "Unknown", the five
\* contact fields null, no skills, "0 years and 0 months", and an `error`
\* that is a non-empty string carrying the exception's message.
C2_FallbackRecord ==
    (proc.pc = "returned" /\ proc.raisedIn # "none") =>
        /\ proc.result = FallbackRecord(proc.message)
        /\ proc.result.error \in STRING
        /\ proc.result.error # NoError
        /\ proc.result.error # ""

\* ------------------------------------------------------------------------
\* extract_sections_with_pymupdf.  `page` counts the pages read so far and
\* `queue` holds their lines in reading order; a line is identified by its
\* position in the queue; parsed_sections lists positions, `headers` is the
\* set of positions at which current_section was assigned.
\* ------------------------------------------------------------------------
SegmInit ==
    /\ segm \in {[SegmIdle EXCEPT !.pc = "lines", !.blocks = b, !.i = 1] : b \in SegmDocs}
    /\ NotSegmIdle

\* for page in doc: the blocks of the next page are split into columns and
\* sorted
ReadPage ==
    /\ segm.pc = "lines"
    /\ segm.i > Len(segm.queue)
    /\ segm.page < Cardinality(PageNumbers)
    /\ segm' = [segm EXCEPT
            !.page = @ + 1,
            !.queue = @ \o ReadingOrder(BlocksOfPage(segm.blocks, segm.page + 1))]
    /\ UNCHANGED NotSegm

\* one iteration of `for line in lines`
ReadLine ==
    /\ segm.pc = "lines"
    /\ segm.i <= Len(segm.queue)
    /\ LET line == segm.queue[segm.i]
           header == IsSectionHeader(line)
           section == IF header THEN FirstMatch(line) ELSE segm.current_section
       IN IF line.text = ""
          THEN segm' = [segm EXCEPT !.i = @ + 1]
          ELSE segm' = [segm EXCEPT
                    !.current_section = section,
                    !.headers = IF header THEN @ \cup {segm.i} ELSE @,
                    !.parsed_sections[section] = Append(@, segm.i),
                    !.i = @ + 1]
    /\ UNCHANGED NotSegm

\* the final cleanup and the return
CleanupSections ==
    /\ segm.pc = "lines"
    /\ segm.i > Len(segm.queue)
    /\ segm.page = Cardinality(PageNumbers)
    /\ segm' = [segm EXCEPT
            !.final_sections =
                [k \in SectionKeys |-> FinalCleanup(segm.queue, segm.parsed_sections[k])],
            !.pc = "done"]
    /\ UNCHANGED NotSegm

SegmNext == ReadPage \/ ReadLine \/ CleanupSections

SegmSpec == SegmInit /\ [][SegmNext]_vars

InSeq(x, seq) == \E k \in 1..Len(seq) : seq[k] = x

\* the section in force after the line at position i
SectionAt(i) ==
    LET before == {h \in segm.headers : h <= i}
    IN IF before = {} THEN "others"
       ELSE FirstMatch(segm.queue[CHOOSE h \in before : \A g \in before : g <= h])

\* C3: in the primary segmenter a line recognised as a section header
\* switches current_section and is not appended to any section's content,
\* while every non-empty line that follows, up to the next header, is in the
\* content of that section.
C3_HeaderExcluded ==
    segm.pc = "done" =>
        \A i \in 1..Len(segm.queue) :
            /\ i \in segm.headers =>
                  \A k \in SectionKeys : ~InSeq(i, segm.parsed_sections[k])
            /\ (i \notin segm.headers /\ segm.queue[i].text # "") =>
                  InSeq(i, segm.parsed_sections[SectionAt(i)])

\* ------------------------------------------------------------------------
\* extract_skills
\* ------------------------------------------------------------------------
SkilInit ==
    /\ skil \in {[SkilIdle EXCEPT !.pc = "candidates", !.text = t] : t \in SkillTexts}
    /\ NotSkilIdle

CollectCandidates ==
    /\ skil.pc = "candidates"
    /\ skil' = [skil EXCEPT !.candidates = Candidates(skil.text), !.pc = "dedupe"]
    /\ UNCHANGED NotSkil

DedupeCandidates ==
    /\ skil.pc = "dedupe"
    /\ skil' = [skil EXCEPT !.result = Dedupe(skil.candidates, {}), !.pc = "done"]
    /\ UNCHANGED NotSkil

SkilNext == CollectCandidates \/ DedupeCandidates

SkilSpec == SkilInit /\ [][SkilNext]_vars

\* C23: no element of the output of extract_skills is a value of more than
\* one word that ends in a period.
C23_NoMultiWordPeriod ==
    skil.pc = "done" =>
        \A i \in 1..Len(skil.result) :
            ~(EndsWithPeriod(skil.result[i]) /\ Len(skil.result[i]) > 1)

\* the positions of the text whose value is kept as a skill
KeptPositions ==
    {k \in 1..Len(skil.text) : skil.text[k] # <<>> /\ is_short_tech_token(skil.text[k])}

\* the first kept position of the text that equals r ignoring case
FirstOccurrence(r) ==
    CHOOSE k \in KeptPositions :
        /\ Lower(skil.text[k]) = Lower(r)
        /\ \A j \in KeptPositions : Lower(skil.text[j]) = Lower(r) => k <= j

\* C9: extract_skills returns a list in which no two elements are equal
\* ignoring case, whose elements are the skills of the input in the order of
\* their first occurrence; "Python", "python", "PYTHON" give one element.
C9_SkillsDeduped ==
    skil.pc = "done" =>
        LET result == skil.result
        IN /\ \A i, j \in 1..Len(result) : i < j => Lower(result[i]) # Lower(result[j])
           /\ \A i \in 1..Len(result) :
                 \E k \in KeptPositions : Lower(skil.text[k]) = Lower(result[i])
           /\ \A k \in KeptPositions :
                 \E i \in 1..Len(result) : Lower(skil.text[k]) = Lower(result[i])
           /\ \A i, j \in 1..Len(result) :
                 i < j => FirstOccurrence(result[i]) < FirstOccurrence(result[j])
           /\ skil.text = <<Cased(<<"python">>, "title"), Cased(<<"python">>, "lower"),
                            Cased(<<"python">>, "upper")>>
                 => Len(result) = 1

\* "Python", "python", "PYTHON" have been reduced to the one skill "PYTHON"
C9_Witness ==
    /\ skil.pc = "done"
    /\ skil.text = <<Cased(<<"python">>, "title"), Cased(<<"python">>, "lower"),
                     Cased(<<"python">>, "upper")>>
    /\ Len(skil.candidates) = 3
    /\ skil.result = <<Cased(<<"python">>, "upper")>>

\* ------------------------------------------------------------------------
\* extract_name: `k` is the position in Strategies of the strategy tried
\* next, `consulted` lists the strategies tried so far
\* ------------------------------------------------------------------------
NameInit ==
    /\ nam \in {[NameIdle EXCEPT !.pc = "split", !.text = t] : t \in NameTexts}
    /\ NotNameIdle

\* lines = the non-empty lines; "Unknown" when there are none
SplitLines ==
    /\ nam.pc = "split"
    /\ LET NonEmpty(ln) == ln # <<>>
           lines == SelectSeq(nam.text, NonEmpty)
       IN nam' = IF lines = <<>>
                  THEN [nam EXCEPT !.result = Unknown, !.pc = "returned"]
                  ELSE [nam EXCEPT !.lines = lines, !.k = 1, !.pc = "strategies"]
    /\ UNCHANGED NotName

\* one strategy is tried: its candidate is returned, or the next one is due
Try(strategy) ==
    /\ nam.pc = "strategies"
    /\ nam.k <= Len(Strategies)
    /\ Strategies[nam.k] = strategy
    /\ LET candidate == Yield(strategy, nam.lines)
       IN nam' = IF candidate # NoName
                  THEN [nam EXCEPT !.consulted = Append(@, strategy),
                                    !.result = candidate, !.pc = "returned"]
                  ELSE [nam EXCEPT !.consulted = Append(@, strategy), !.k = @ + 1]
    /\ UNCHANGED NotName

TryFirstLineWithRole == Try("first_line_with_role")

TryLabeledBlock == Try("labeled_block")

TryPreambleScoring == Try("preamble_scoring")

TryLooseFallback == Try("loose_fallback")

TryFirstLine == Try("first_line")

ReturnUnknown ==
    /\ nam.pc = "strategies"
    /\ nam.k > Len(Strategies)
    /\ nam' = [nam EXCEPT !.result = Unknown, !.pc = "returned"]
    /\ UNCHANGED NotName

NameNext ==
    \/ SplitLines
    \/ TryFirstLineWithRole
    \/ TryLabeledBlock
    \/ TryPreambleScoring
    \/ TryLooseFallback
    \/ TryFirstLine
    \/ ReturnUnknown

NameSpec == NameInit /\ [][NameNext]_vars

\* C10: extract_name tries first-line-with-role, labeled block, preamble
\* scoring and loose fallback in this order and returns the candidate of the
\* first of them that yields one, without consulting the later ones; a first
\* line "John Smith - Senior Software Engineer" gives "John Smith".
C10_StrategyPriority ==
    (nam.pc = "returned" /\ nam.lines # <<>>) =>
        LET first_line == _extract_from_first_line_with_role(nam.lines)
            labeled == LabeledName(nam.lines)
            scored == ScoredName(nam.lines)
            loose == LooseName(nam.lines)
        IN /\ first_line # NoName =>
                 /\ nam.result = first_line
                 /\ nam.consulted = <<"first_line_with_role">>
           /\ (first_line = NoName /\ labeled # NoName) =>
                 /\ nam.result = labeled
                 /\ nam.consulted = <<"first_line_with_role", "labeled_block">>
           /\ (first_line = NoName /\ labeled = NoName /\ scored # NoName) =>
                 /\ nam.result = scored
                 /\ nam.consulted =
                        <<"first_line_with_role", "labeled_block", "preamble_scoring">>
           /\ (first_line = NoName /\ labeled = NoName /\ scored = NoName
                  /\ loose # NoName) =>
                 /\ nam.result = loose
                 /\ nam.consulted =
                        <<"first_line_with_role", "labeled_block", "preamble_scoring",
                          "loose_fallback">>
           /\ nam.lines[1] = JohnSmithWithRole =>
                 /\ nam.result = <<"John", "Smith">>
                 /\ nam.consulted = <<"first_line_with_role">>

\* "John Smith - Senior Software Engineer" above a labeled name: the first
\* line has given the name and the label was not looked at
C10_Witness ==
    /\ nam.pc = "returned"
    /\ nam.lines = <<JohnSmithWithRole, LabeledJaneRoe>>
    /\ LabeledName(nam.lines) = <<"Jane", "Roe">>
    /\ nam.result = <<"John", "Smith">>
    /\ nam.consulted = <<"first_line_with_role">>

\* C21: a name the first-line-with-role strategy returns has one or two
\* tokens, each a capitalized word, and passes _is_name_shape.
C21_FirstLineNameShape ==
    (nam.pc = "returned" /\ nam.consulted = <<"first_line_with_role">>) =>
        LET name_tokens == NamePrefix(_clean_candidate(nam.lines[1]))
        IN /\ nam.result = Words(name_tokens)
           /\ Len(name_tokens) \in 1..2
           /\ \A i \in 1..Len(name_tokens) : name_tokens[i].shape = "Title"
           /\ _is_name_shape(name_tokens)

\* C22: when first-line-with-role, labeled block, preamble scoring and loose
\* fallback all yield nothing, extract_name returns "Unknown", and so never
\* a line they rejected for its job-title words.
C22_UnknownWhenAllFail ==
    (/\ nam.pc = "returned"
     /\ nam.lines # <<>>
     /\ _extract_from_first_line_with_role(nam.lines) = NoName
     /\ LabeledName(nam.lines) = NoName
     /\ ScoredName(nam.lines) = NoName
     /\ LooseName(nam.lines) = NoName)
    => nam.result = Unknown

\* ------------------------------------------------------------------------
\* extract_phone
\* ------------------------------------------------------------------------
PhonInit ==
    /\ phon \in {[PhonIdle EXCEPT !.pc = "findall", !.text = t, !.lib_accepts = b] :
                    t \in PhoneTexts, b \in BOOLEAN}
    /\ NotPhonIdle

\* candidates = re.findall(...)
FindCandidates ==
    /\ phon.pc = "findall"
    /\ phon' = [phon EXCEPT !.candidates = FindPhoneCandidates(phon.text), !.i = 1,
                            !.pc = "candidates"]
    /\ UNCHANGED NotPhon

\* one iteration of `for raw in candidates`
TryCandidate ==
    /\ phon.pc = "candidates"
    /\ phon.i <= Len(phon.candidates)
    /\ LET number == PhoneOf(phon.candidates[phon.i], phon.lib_accepts)
       IN phon' = IF number # NoPhone
                  THEN [phon EXCEPT !.result = number, !.pc = "done"]
                  ELSE [phon EXCEPT !.i = @ + 1]
    /\ UNCHANGED NotPhon

\* return None
ReturnNoPhone ==
    /\ phon.pc = "candidates"
    /\ phon.i > Len(phon.candidates)
    /\ phon' = [phon EXCEPT !.result = NoPhone, !.pc = "done"]
    /\ UNCHANGED NotPhon

PhonNext == FindCandidates \/ TryCandidate \/ ReturnNoPhone

PhonSpec == PhonInit /\ [][PhonNext]_vars

\* the text holds the ten digits of a mobile number, contiguous, and around
\* them only characters that are no part of a phone number
HasBareMobile(text) ==
    \E at \in 1..(Len(text) - 9) :
        /\ SubSeq(text, at, at + 9) = TenDigits
        /\ \A k \in 1..Len(text) : (k < at \/ k > at + 9) => text[k] = "x"

\* C11: extract_phone on a text whose phone number is the bare contiguous
\* ten-digit string 9876543210 returns the number in international format
\* with the country calling code +91, not None.
C11_BareTenDigits ==
    (phon.pc = "done" /\ HasBareMobile(phon.text)) =>
        /\ phon.result # NoPhone
        /\ phon.result = FormatIN(TenDigits)

\* ------------------------------------------------------------------------
\* get_combined_texts: the pdfplumber backend, then the PyMuPDF backend
\* ------------------------------------------------------------------------
ExtrInit ==
    /\ extr \in {[ExtrIdle EXCEPT !.pc = "plumber_open", !.file = f] : f \in PdfFiles}
    /\ NotExtrIdle

\* with pdfplumber.open(file_path) as pdf
PlumberOpen ==
    /\ extr.pc = "plumber_open"
    /\ extr' = IF extr.file.plumber
               THEN [extr EXCEPT !.p = 1, !.pages_text = <<>>, !.pc = "plumber_page"]
               ELSE ReturnEmpty(extr, "pdfplumber")
    /\ UNCHANGED NotExtr

\* one iteration of `for page in pdf.pages`; the rebuild from words and the
\* tables are in try blocks of their own
PlumberPage ==
    /\ extr.pc = "plumber_page"
    /\ extr.p <= Len(extr.file.pages)
    /\ LET page == extr.file.pages[extr.p]
       IN IF page.raises THEN extr' = ReturnEmpty(extr, "pdfplumber")
          ELSE \E words_raise \in BOOLEAN, tables_raise \in BOOLEAN :
                 /\ words_raise => page.sparse
                 /\ LET page_text ==
                            IF page.sparse /\ ~words_raise /\ page.rebuilt # <<>>
                            THEN page.rebuilt ELSE page.native
                    IN extr' = [extr EXCEPT
                            !.pages_text = Append(@, _normalize_text_block(page_text)),
                            !.swallowed = @ + (IF words_raise THEN 1 ELSE 0)
                                            + (IF tables_raise THEN 1 ELSE 0),
                            !.p = @ + 1]
    /\ UNCHANGED NotExtr

PlumberJoin ==
    /\ extr.pc = "plumber_page"
    /\ extr.p > Len(extr.file.pages)
    /\ extr' = [extr EXCEPT !.txt1 = JoinPages(extr.pages_text), !.pc = "fitz_open"]
    /\ UNCHANGED NotExtr

\* doc = fitz.open(file_path)
FitzOpen ==
    /\ extr.pc = "fitz_open"
    /\ extr' = IF extr.file.fitz
               THEN [extr EXCEPT !.p = 1, !.pages_text = <<>>, !.pc = "fitz_page"]
               ELSE ReturnEmpty(extr, "pymupdf")
    /\ UNCHANGED NotExtr

\* one iteration of `for page in doc`; the reconstruction from the dict is
\* in a try block of its own
FitzPage ==
    /\ extr.pc = "fitz_page"
    /\ extr.p <= Len(extr.file.pages)
    /\ LET page == extr.file.pages[extr.p]
       IN IF page.raises THEN extr' = ReturnEmpty(extr, "pymupdf")
          ELSE \E dict_raises \in BOOLEAN :
                 LET txt_b == IF dict_raises THEN <<>> ELSE page.rebuilt
                     page_text == IF ~page.sparse THEN page.native ELSE txt_b
                 IN extr' = [extr EXCEPT
                         !.pages_text = Append(@, _normalize_text_block(page_text)),
                         !.swallowed = @ + (IF dict_raises THEN 1 ELSE 0),
                         !.p = @ + 1]
    /\ UNCHANGED NotExtr

FitzJoin ==
    /\ extr.pc = "fitz_page"
    /\ extr.p > Len(extr.file.pages)
    /\ extr' = [extr EXCEPT !.txt2 = JoinPages(extr.pages_text), !.pc = "combine"]
    /\ UNCHANGED NotExtr

\* return combined.strip(), txt1, txt2
CombineTexts ==
    /\ extr.pc = "combine"
    /\ extr' = [extr EXCEPT
            !.result = <<CombinedText(extr.txt1, extr.txt2), extr.txt1, extr.txt2>>,
            !.pc = "done"]
    /\ UNCHANGED NotExtr

ExtrNext ==
    \/ PlumberOpen
    \/ PlumberPage
    \/ PlumberJoin
    \/ FitzOpen
    \/ FitzPage
    \/ FitzJoin
    \/ CombineTexts

ExtrSpec == ExtrInit /\ [][ExtrNext]_vars

\* a text: a sequence of characters
IsText(t) == \A k \in 1..Len(t) : t[k] \in STRING

\* the backend cannot open the file, or reading one of its pages raises
CannotRead(f, backend) ==
    \/ (backend = "pdfplumber" /\ ~f.plumber)
    \/ (backend = "pymupdf" /\ ~f.fitz)
    \/ \E p \in 1..Len(f.pages) : f.pages[p].raises

\* C12: a text-extraction backend that cannot open or read the document
\* returns the empty string and never raises; get_combined_texts always
\* returns a triple of strings.
C12_BackendsNeverRaise ==
    /\ extr.pc # "raised"
    /\ extr.pc = "done" =>
          /\ Len(extr.result) = 3
          /\ \A k \in 1..3 : IsText(extr.result[k])
          /\ CannotRead(extr.file, "pdfplumber") => extr.result[2] = <<>>
          /\ CannotRead(extr.file, "pymupdf") => extr.result[3] = <<>>
          /\ extr.failed = {b \in {"pdfplumber", "pymupdf"} : CannotRead(extr.file, b)}

\* pdfplumber could not open the file, PyMuPDF read it: the triple holds
\* the empty string and the text of PyMuPDF
C12_Witness ==
    /\ extr.pc = "done"
    /\ ~extr.file.plumber
    /\ extr.failed = {"pdfplumber"}
    /\ extr.result[2] = <<>>
    /\ extr.result[3] # <<>>
    /\ extr.result[1] = extr.result[3]

\* ------------------------------------------------------------------------
\* backend_api.py: one request to /parse-resume (one upload) or to
\* /parse-multiple (a list of uploads)
\* ------------------------------------------------------------------------
HttpInit ==
    /\ http \in
         {[HttpIdle EXCEPT !.pc = "validate", !.endpoint = "parse-resume",
                           !.files = <<u>>, !.k = 1] : u \in Uploads}
         \cup
         {[HttpIdle EXCEPT !.pc = "validate", !.endpoint = "parse-multiple",
                           !.files = fs, !.k = 1] : fs \in SeqsUpTo(Uploads, MaxFiles)}
    /\ NotHttpIdle

\* the extension check: /parse-resume raises HTTPException(400) inside its
\* try block, /parse-multiple records a failure and continues
ValidateType ==
    /\ http.pc = "validate"
    /\ http.k <= Len(http.files)
    /\ http' = IF http.files[http.k].supported
               THEN [http EXCEPT !.pc = "create_temp"]
               ELSE IF http.endpoint = "parse-resume"
                    THEN HandleException(http, Unsupported400)
               ELSE EndUpload([http EXCEPT
                        !.results = Append(@, FailureEntry(http.k, "Unsupported file type"))])
    /\ UNCHANGED NotHttp

\* tempfile.NamedTemporaryFile(delete=False, ...)
CreateTemp ==
    /\ http.pc = "create_temp"
    /\ http' = [http EXCEPT !.tmp = @ \cup {http.k}, !.created = @ \cup {http.k},
                            !.pc = "read_write"]
    /\ UNCHANGED NotHttp

\* content = await file.read(); tmp_file.write(content): an exception
\* leaves the with block for the outer handler
ReadWrite ==
    /\ http.pc = "read_write"
    /\ http' = IF http.files[http.k].io = "ok"
               THEN [http EXCEPT !.pc = "process"]
               ELSE HandleException(http, http.files[http.k].io)
    /\ UNCHANGED NotHttp

\* the inner try: process_resume, json.loads and the response data
Process ==
    /\ http.pc = "process"
    /\ LET outcome == http.files[http.k].parse
       IN http' = [http EXCEPT
               !.called = @ \cup {http.k},
               !.pending = IF outcome = "raises" THEN "boom" ELSE NoError,
               !.data = IF outcome = "record" THEN SampleRecord
                        ELSE IF outcome = "fallback" THEN FallbackRecord("boom")
                        ELSE Null,
               !.pc = "cleanup"]
    /\ UNCHANGED NotHttp

\* the end of the inner try and its finally.  /parse-multiple appends its
\* success entry before the finally runs; os.unlink(tmp_file_path) removes
\* the file or raises, and its exception replaces the pending return or
\* exception and reaches the outer handler
Cleanup ==
    /\ http.pc = "cleanup"
    /\ LET parsed == http.pending = NoError
           appended == IF parsed /\ http.endpoint = "parse-multiple"
                       THEN Append(http.results,
                                   SuccessEntry(http.k, TransformedData(http.data)))
                       ELSE http.results
           h == [http EXCEPT !.results = appended, !.pending = NoError, !.data = Null]
           unlinked == [h EXCEPT !.tmp = @ \ {http.k}]
       IN http' = IF http.files[http.k].unlink = "fails"
                  THEN HandleException(h, "unlink_fails")
                  ELSE IF ~parsed THEN HandleException(unlinked, http.pending)
                  ELSE IF http.endpoint = "parse-resume"
                       THEN EndUpload([unlinked EXCEPT !.response = SuccessResponse(http.data)])
                  ELSE EndUpload(unlinked)
    /\ UNCHANGED NotHttp

\* return JSONResponse(content={"results": results})
ReturnResults ==
    /\ http.pc = "validate"
    /\ http.k > Len(http.files)
    /\ http' = [http EXCEPT !.response = [status |-> 200, kind |-> "results"],
                            !.pc = "done"]
    /\ UNCHANGED NotHttp

HttpNext ==
    \/ ValidateType
    \/ CreateTemp
    \/ ReadWrite
    \/ Process
    \/ Cleanup
    \/ ReturnResults

HttpSpec == HttpInit /\ [][HttpNext]_vars

\* C13: the temporary file of an upload no longer exists once the handling
\* of that upload has ended, whichever way it ended: success, a failed
\* parse, a failure while reading the upload or writing the temporary file.
C13_TempFileReleased ==
    \A k \in http.handled : k \notin http.tmp

\* C24: a 500 response of the HTTP layer has the shape of the fallback
\* record of process_resume: personalInfo with the name "Unknown" and null
\* contacts, no skills, "0 years and 0 months", and the error.
C24_ErrorHasFallbackShape ==
    http.response.status = 500 =>
        /\ DOMAIN FallbackRecord("boom") \subseteq DOMAIN http.response
        /\ [f \in DOMAIN FallbackRecord("boom") |-> http.response[f]]
               = FallbackRecord(http.response.error)

\* C27: /parse-resume answers an upload whose extension is not supported
\* with status 400, creating no temporary file and not calling
\* process_resume.
C27_Unsupported400 ==
    (http.endpoint = "parse-resume" /\ http.pc = "done" /\ ~http.files[1].supported) =>
        /\ http.response.status = 400
        /\ http.created = {}
        /\ http.called = {}

\* C28: /parse-multiple returns one entry per uploaded file, in the order
\* of the uploads; a file rejected for its extension or whose processing
\* raised has an entry with success false, and the files after it are
\* processed all the same.
C28_OneEntryPerFile ==
    (http.endpoint = "parse-multiple" /\ http.pc = "done") =>
        /\ Len(http.results) = Len(http.files)
        /\ \A k \in 1..Len(http.results) :
              /\ http.results[k].file = k
              /\ (~http.files[k].supported \/ http.files[k].io # "ok"
                     \/ http.files[k].parse = "raises" \/ http.files[k].unlink = "fails")
                  => ~http.results[k].success
              /\ (http.files[k].supported /\ http.files[k].io = "ok") => k \in http.called

\* C29: a /parse-resume response with processing_status "success" and a
\* /parse-multiple entry with success true stand for a record that
\* process_resume returned without an 'error' field, never for its fallback
\* record.
C29_SuccessIsNoFallback ==
    /\ (http.response.status = 200 /\ http.response.kind = "parsed") =>
            http.response.data.error = NoError
    /\ \A i \in 1..Len(http.results) :
            http.results[i].success => http.files[http.results[i].file].parse = "record"

\* a step of process_resume has raised an exception, caught by the handler
\* of process_resume or by the try block around the refined segmenter
SomeStepRaised == proc.raisedIn # "none" \/ proc.swallowedIn # "none"

\* C14: an exception raised by any step invoked within process_resume, the
\* refined segmenter included, results in the fallback record being
\* returned, with the exception's message in `error`.
C14_AnyExceptionFallback ==
    (proc.pc = "returned" /\ SomeStepRaised) =>
        /\ proc.result.error # NoError
        /\ proc.result = FallbackRecord(proc.result.error)

\* C15: when exactly one text-extraction backend cannot open or read the
\* document and no other step fails, process_resume continues with the text
\* of the other backend and returns a normal record, not the fallback one.
C15_OneBackendSuffices ==
    (proc.pc = "returned" /\ proc.doc.plumber # proc.doc.fitz /\ proc.message \notin Messages) =>
        /\ proc.raisedIn = "none"
        /\ proc.result.error = NoError
        /\ proc.result = ResultRecord(proc)

AssigningLine == segm.queue[segm.i]

\* C17: current_section starts as "others" and changes only in the step
\* that reads a line of at most 7 words that matches a section pattern and
\* is bold or larger than 11pt; every other step (another line, the start
\* of the next block, column or page) leaves it unchanged.
C17_SectionChangesOnlyAtHeader ==
    /\ (segm.pc = "lines" /\ segm.page = 0) => segm.current_section = "others"
    /\ [][segm'.current_section # segm.current_section =>
            /\ segm.pc = "lines" /\ segm.i <= Len(segm.queue)
            /\ segm'.i = segm.i + 1
            /\ AssigningLine.words <= 7
            /\ AssigningLine.matches # {}
            /\ (AssigningLine.bold \/ AssigningLine.size > 11)
            /\ segm'.current_section \in AssigningLine.matches]_vars

\* a header on the first page, a plain line on the second: the section set
\* by the header is still in force and the plain line is in it
C17_Witness ==
    /\ segm.pc = "done"
    /\ Len(segm.queue) = 2
    /\ segm.blocks[1].page = 1 /\ segm.blocks[2].page = 2
    /\ segm.headers = {1}
    /\ segm.queue[2].text = "Python"
    /\ segm.current_section = "skills"
    /\ segm.parsed_sections["skills"] = <<1, 2>>

\* ------------------------------------------------------------------------
\* extract_sections_with_pymupdf_refined; parsed_sections lists the
\* positions of the lines in the document
\* ------------------------------------------------------------------------
RefiInit ==
    /\ refi \in {[RefiIdle EXCEPT !.pc = "headers", !.lines = d] : d \in RefinedDocs}
    /\ NotRefiIdle

\* the pre-pass over all lines and header_info.sort
CollectHeaders ==
    /\ refi.pc = "headers"
    /\ refi' = [refi EXCEPT !.header_info = HeaderInfo(refi.lines), !.i = 1,
                            !.pc = "assign"]
    /\ UNCHANGED NotRefi

\* one iteration of the second loop over the lines
AssignLine ==
    /\ refi.pc = "assign"
    /\ refi.i <= Len(refi.lines)
    /\ LET l == refi.lines[refi.i]
           best_match_header == BestMatchHeader(refi.header_info, l.y0, Preamble)
       IN refi' = IF l.line.text = "" THEN [refi EXCEPT !.i = @ + 1]
                  ELSE IF IsRefinedHeader(l)
                       THEN [refi EXCEPT !.current_section = l.line.which, !.i = @ + 1]
                  ELSE [refi EXCEPT
                           !.parsed_sections[best_match_header] = Append(@, refi.i),
                           !.i = @ + 1]
    /\ UNCHANGED NotRefi

\* final_sections: "personal" is the first line of the preamble, a section
\* is present when it has lines
FinishSections ==
    /\ refi.pc = "assign"
    /\ refi.i > Len(refi.lines)
    /\ LET TextsOf(k) == [n \in 1..Len(refi.parsed_sections[k]) |->
                             refi.lines[refi.parsed_sections[k][n]].line.text]
           present == {k \in {"skills", "education"} : refi.parsed_sections[k] # <<>>}
       IN refi' = [refi EXCEPT
               !.final_sections =
                   [k \in present \cup {"personal"} |->
                       IF k = "personal" THEN Take(TextsOf(Preamble), Min(1, Len(TextsOf(Preamble))))
                       ELSE TextsOf(k)],
               !.pc = "done"]
    /\ UNCHANGED NotRefi

RefiNext == CollectHeaders \/ AssignLine \/ FinishSections

RefiSpec == RefiInit /\ [][RefiNext]_vars

\* the section of the closest header line before position i of the
\* document, the preamble when there is none
ClosestHeaderAbove(i) ==
    LET before == {h \in 1..(i - 1) : IsRefinedHeader(refi.lines[h])}
    IN IF before = {} THEN Preamble
       ELSE refi.lines[CHOOSE h \in before : \A g \in before : g <= h].line.which

\* C18: the refined segmenter assigns every content line to the section of
\* the closest header line above it in the document, and to the preamble
\* when no header lies above it, whatever the number of pages.
C18_ClosestHeaderAbove ==
    refi.pc = "done" =>
        \A i \in 1..Len(refi.lines) :
            (refi.lines[i].line.text # "" /\ ~IsRefinedHeader(refi.lines[i])) =>
                InSeq(i, refi.parsed_sections[ClosestHeaderAbove(i)])

\* ------------------------------------------------------------------------
\* VeriSpec: verify_and_select_name on every pair of names
\* ------------------------------------------------------------------------
VeriInit ==
    /\ veri \in {[VeriIdle EXCEPT !.pc = "call", !.name1 = a, !.name2 = b] :
                    a \in SelectableNames, b \in SelectableNames}
    /\ NotVeriIdle

SelectName ==
    /\ veri.pc = "call"
    /\ veri' = [veri EXCEPT !.selected = verify_and_select_name(veri.name1, veri.name2),
                            !.pc = "done"]
    /\ UNCHANGED NotVeri

VeriNext == SelectName

VeriSpec == VeriInit /\ [][VeriNext]_vars

\* what the function does whenever a name is "Unknown"
SelectsKnown ==
    /\ veri.selected \in {veri.name1, veri.name2}
    /\ veri.selected = "Unknown" => (veri.name1 = "Unknown" /\ veri.name2 = "Unknown")
    /\ (veri.name1 = "Unknown" /\ veri.name2 # "Unknown") => veri.selected = veri.name2
    /\ (veri.name2 = "Unknown" /\ veri.name1 # "Unknown") => veri.selected = veri.name1

BothReal == veri.name1 # "Unknown" /\ veri.name2 # "Unknown"

\* C20 as stated: the result is one of the two arguments, "Unknown" only
\* when both are, the other one when exactly one is "Unknown", and of two
\* real names the longer one, which is the one with more tokens.
C20_LongerHasMoreTokens ==
    veri.pc = "done" =>
        /\ SelectsKnown
        /\ BothReal =>
            /\ CharLen(veri.selected) >= CharLen(veri.name1)
            /\ CharLen(veri.selected) >= CharLen(veri.name2)
            /\ TokenCount(veri.selected) >= TokenCount(veri.name1)
            /\ TokenCount(veri.selected) >= TokenCount(veri.name2)

\* C20: the result is one of the two arguments, "Unknown" only when both
\* are, the other one when exactly one is "Unknown", and of two real names
\* the one with more characters, the first when they have as many; it may
\* be the one with fewer tokens.
C20_SelectsLongerString ==
    veri.pc = "done" =>
        /\ SelectsKnown
        /\ BothReal =>
            /\ CharLen(veri.selected) >= CharLen(veri.name1)
            /\ CharLen(veri.selected) >= CharLen(veri.name2)
            /\ CharLen(veri.name1) = CharLen(veri.name2) => veri.selected = veri.name1

\* the longer string is selected although it has fewer tokens
C20_Witness ==
    /\ veri.pc = "done"
    /\ veri.name1 = "Jo Li"
    /\ veri.name2 = "Christopher"
    /\ veri.selected = "Christopher"

\* ------------------------------------------------------------------------
\* DeteSpec: two runs of calculate_total_experience over the same text, the
\* first at the date now1 and the second at the date now2
\* ------------------------------------------------------------------------
DeteInit ==
    /\ dete \in {[DeteIdle EXCEPT !.pc = "first", !.matches = ms, !.now1 = n1, !.now2 = n2] :
                    ms \in SeqsUpTo(DateRanges, MaxMatches), n1 \in Nows, n2 \in Nows}
    /\ NotDeteIdle

FirstRun ==
    /\ dete.pc = "first"
    /\ dete' = [dete EXCEPT !.result1 = calculate_total_experience(dete.matches, dete.now1),
                            !.pc = "second"]
    /\ UNCHANGED NotDete

SecondRun ==
    /\ dete.pc = "second"
    /\ dete' = [dete EXCEPT !.result2 = calculate_total_experience(dete.matches, dete.now2),
                            !.pc = "done"]
    /\ UNCHANGED NotDete

DeteNext == FirstRun \/ SecondRun

DeteSpec == DeteInit /\ [][DeteNext]_vars

\* C25: two runs over the same content give the same result whatever the
\* dates at which they happen, texts with "Present" and with ranges near
\* the current date included.
C25_SameResultAtAnyTime ==
    dete.pc = "done" => dete.result1 = dete.result2

====
